---- MODULE Spec2Model ----
(***************************************************************************)
(* Thread scheduling core of KJ-Pintos: ready queue and dispatcher         *)
(* (threads/thread.c), semaphores and locks (threads/synch.c), timer tick  *)
(* and timed sleep (devices/timer.c).                                      *)
(*                                                                         *)
(* A thread's position is a stack of frames.  The top frame says where     *)
(* the thread continues.  Code between two points at which interrupts are  *)
(* enabled, or up to a context switch, is one action: interrupts are the   *)
(* only source of interleaving on this single CPU.                         *)
(***************************************************************************)
EXTENDS Integers, Sequences, FiniteSets, TLC

\* ---------------------------------------------------------------- bounds
MaxOps == 4        \* API calls the test threads make in one run
MaxTicks == 4      \* timer interrupts delivered in one run

\* ------------------------------------------------------ program constants
PRI_MIN == 0
PRI_DEFAULT == 31
PRI_MAX == 63
TIME_SLICE == 4
F == 16384

\* ------------------------------------------------------------- the world
initial_thread == "main"
idle_thread == "idle"
Workers == <<"t1", "t2", "t3">>
WorkerSet == {Workers[i] : i \in 1..Len(Workers)}
Threads == {initial_thread, idle_thread} \cup WorkerSet
NULL == "NULL"
tid_lock == "tid_lock"
UserLocks == {"L1", "L2"}
GenLocks == {"L1"}      \* the lock the general test uses
Locks == UserLocks \cup {tid_lock}
UserSemas == {"S1"}
Conds == {"CV"}
\* waiter.semaphore of the struct semaphore_elem in a thread's cond_wait frame
WaiterSema == [t \in {initial_thread} \cup WorkerSet |-> "waiter_" \o t]
WaiterSemas == {WaiterSema[t] : t \in DOMAIN WaiterSema}
\* sema[0] and sema[1] of sema_self_test
PingSema == <<"sema0", "sema1">>
\* the semaphore of thread_start
idle_started == "idle_started"
Semas == Locks \cup UserSemas \cup WaiterSemas \cup {PingSema[1], PingSema[2]}
           \cup {idle_started}
Prios == {20, 31, 40}
Nices == {0, 5}
SleepArgs == {0, 2}
SemaInits == {0}

VARIABLES
  thread_mlfqs,    \* boot flag
  status,          \* thread -> THREAD_* (NONE: page not allocated, FREED: page released)
  priority, base_priority, donations, nice, recent_cpu, tid, wakeup_tick,
  stack,           \* thread -> sequence of frames
  running,         \* running_thread()
  ready_list, sleep_list, destruction_req, all_threads,
  thread_ticks, ticks, next_tid, load_avg,
  value, waiters,  \* semaphore -> value / waiter list
  holder,          \* lock -> thread or NULL
  cond_waiters,    \* condition -> threads whose semaphore_elem is in cond->waiters
  panicked,        \* an ASSERT failed
  intr_level,      \* the interrupt flag of the CPU: intr_get_level ()
  old_level,       \* thread -> the levels saved by its open intr_disable scopes
  \* history variables, never read by the modelled code
  pages,           \* pages palloc_get_page can hand out to threads
  budget,          \* API calls the test threads make in this run
  last_tick,       \* the tick at which this run stops the timer
  ops,             \* API calls made so far
  tracing,         \* this run records its API calls in last_call
  last_call,       \* the last API call made, with the value it returned at once
  isr_log,         \* the steps the last timer_interrupt went through, in order
  write_level,     \* the interrupt level at which the last step made its writes
  held,            \* thread -> locks between a returned acquire and the release call
  enq_stamp,       \* thread -> serial number of its last entry into ready_list
  sema_ups, sema_downs, sema_initial,
  blocked_once     \* threads that called thread_block or thread_exit

vars == <<thread_mlfqs, status, priority, base_priority, donations, nice,
          recent_cpu, tid, wakeup_tick, stack, running, ready_list,
          sleep_list, destruction_req, all_threads, thread_ticks, ticks,
          next_tid, load_avg, value, waiters, holder, cond_waiters, panicked, pages, budget,
          last_tick,
          tracing, ops, last_call, isr_log, write_level, intr_level, old_level, held, enq_stamp, sema_ups, sema_downs, sema_initial,
          blocked_once>>

\* ------------------------------------------------------------- sequences
Range(s) == {s[i] : i \in 1..Len(s)}
Max(S) == CHOOSE x \in S : \A y \in S : y <= x

\* C integer division truncates toward zero
CDiv(a, b) == IF a >= 0 THEN a \div b ELSE -((-a) \div b)

\* list_insert_ordered: before the first element e with less(elem, e)
list_insert_ordered(list, elem, less(_, _)) ==
  LET hits == {i \in 1..Len(list) : less(elem, list[i])}
      pos == IF hits = {} THEN Len(list) + 1
             ELSE CHOOSE i \in hits : \A j \in hits : i <= j
  IN SubSeq(list, 1, pos - 1) \o <<elem>> \o SubSeq(list, pos, Len(list))

\* --------------------------------------------------------------- frames
Fr(pc, obj, arg, arg2) == [pc |-> pc, obj |-> obj, arg |-> arg, arg2 |-> arg2]
UserFrame == Fr("user", NULL, 0, 0)
Top(t) == stack[t][Len(stack[t])]
Pop(s) == SubSeq(s, 1, Len(s) - 1)
\* frames at which the thread resumes inside an intr_disable() section
IntrOffPcs == {"sd_wait", "su_inc", "ts_create", "ts_unblock", "ts_enable"}
\* the timer interrupt is delivered only while the interrupt flag is set
IntrOn == intr_level = "INTR_ON"

\* ------------------------------------------------------------ fixed point
INT_TO_FP(n) == n * F
FP_ADD(x, y) == x + y
FP_ADD_MIXED(x, n) == x + n * F
\* ((int64_t) x) * y / F
FP_MULT(x, y) == CDiv(x * y, F)
FP_MULT_MIXED(x, n) == x * n
FP_DIV_MIXED(x, n) == CDiv(x, n)
FP_TO_INT_TRUNC_floor(x) == x \div F
\* x / F in C: the quotient is truncated toward zero
FP_TO_INT_TRUNC(x) == CDiv(x, F)

\* mlfqs_calculate_priority: the value stored in t->priority
mlfqs_calculate_priority(rc, nc) ==
  LET recent_cpu_term == FP_TO_INT_TRUNC(FP_DIV_MIXED(rc, 4))
      nice_term == nc * 2
      new_priority == PRI_MAX - recent_cpu_term - nice_term
  IN IF new_priority < PRI_MIN THEN PRI_MIN
     ELSE IF new_priority > PRI_MAX THEN PRI_MAX
     ELSE new_priority

\* ---------------------------------------------------------------- Init
\* The state after thread_init and thread_start: main is running with tid 1,
\* the idle thread (tid 2) has blocked in its loop, the test has initialised
\* its locks and its semaphore.  now is the tick count reached while main
\* was running alone; rc and nc are the recent_cpu and nice fields of the
\* two threads, la is load_avg.
BootAt(b, n, tr, now, rc, nc, la) ==
  /\ thread_mlfqs \in BOOLEAN
  /\ status = [t \in Threads |-> IF t = initial_thread THEN "RUNNING"
                                 ELSE IF t = idle_thread THEN "BLOCKED"
                                 ELSE "NONE"]
  /\ priority = [t \in Threads |->
        IF t \in WorkerSet THEN 0
        ELSE IF thread_mlfqs THEN mlfqs_calculate_priority(0, 0)
        ELSE IF t = initial_thread THEN PRI_DEFAULT ELSE PRI_MIN]
  /\ base_priority = [t \in Threads |->
        IF thread_mlfqs \/ t \in WorkerSet THEN 0
        ELSE IF t = initial_thread THEN PRI_DEFAULT ELSE PRI_MIN]
  /\ donations = [t \in Threads |-> <<>>]
  /\ nice = [t \in Threads |-> IF t \in WorkerSet THEN 0 ELSE nc]
  /\ recent_cpu = [t \in Threads |-> IF t \in WorkerSet THEN 0 ELSE rc]
  /\ tid = [t \in Threads |-> IF t = initial_thread THEN 1
                              ELSE IF t = idle_thread THEN 2 ELSE 0]
  /\ wakeup_tick = [t \in Threads |-> 0]
  /\ stack = [t \in Threads |-> IF t = initial_thread THEN <<UserFrame>>
                                ELSE IF t = idle_thread THEN <<Fr("hlt", NULL, 0, 0)>>
                                ELSE <<>>]
  /\ running = initial_thread
  /\ ready_list = <<>>
  /\ sleep_list = <<>>
  /\ destruction_req = <<>>
  /\ all_threads = IF thread_mlfqs THEN <<initial_thread, idle_thread>> ELSE <<>>
  /\ thread_ticks = now % TIME_SLICE
  /\ ticks = now
  /\ last_tick = now + MaxTicks
  /\ next_tid = 3
  /\ load_avg = la
  /\ \E v \in SemaInits :
        /\ value = [s \in Semas |-> IF s \in Locks THEN 1
                                     ELSE IF s \in UserSemas THEN v ELSE 0]
        /\ sema_initial = value
  /\ waiters = [s \in Semas |-> <<>>]
  /\ holder = [l \in Locks |-> NULL]
  /\ cond_waiters = [c \in Conds |-> <<>>]
  /\ panicked = FALSE
  /\ pages = n
  /\ budget = b
  /\ tracing = tr
  /\ ops = 0
  /\ last_call = [f |-> "none", t |-> NULL, obj |-> NULL, arg |-> 0, ret |-> "-"]
  /\ isr_log = <<>>
  /\ write_level = "INTR_OFF"
  /\ intr_level = "INTR_ON"
  /\ old_level = [t \in Threads |-> <<>>]
  /\ held = [t \in Threads |-> {}]
  /\ enq_stamp = [t \in Threads |-> 0]
  /\ sema_ups = [s \in Semas |-> 0]
  /\ sema_downs = [s \in Semas |-> 0]
  /\ blocked_once = {}

\* the state right after boot: no tick yet, every MLFQS field zero
Boot(b, n, tr) == BootAt(b, n, tr, 0, 0, 0, 0)

Init == Boot(MaxOps, 2, FALSE)

\* ------------------------------------------------------------ scheduler
\* A ready queue travels with its history: l is ready_list, o the entry stamps.
Rq == [l |-> ready_list, o |-> enq_stamp]

thread_priority_less_func_lifo(pr, a, b) == pr[a] >= pr[b]
\* thread_priority_less_func: a goes before b when its priority is strictly higher
thread_priority_less_func(pr, a, b) == pr[a] > pr[b]

\* list_insert_ordered (&ready_list, &t->elem, thread_priority_less_func, NULL)
RqInsert(rq, t, pr) ==
  [l |-> list_insert_ordered(rq.l, t, LAMBDA a, b : thread_priority_less_func(pr, a, b)),
   o |-> [rq.o EXCEPT ![t] = 1 + Max({rq.o[u] : u \in Threads})]]

\* next_thread_to_run: the front of the ready list, or the idle thread
next_thread_to_run(l) == IF l = <<>> THEN idle_thread ELSE Head(l)

IsInitialThread_never(t) == FALSE
\* schedule: curr != initial_thread, whose page palloc never handed out
IsInitialThread(t) == t = initial_thread

MarkRunning_skip(st, next) == st
\* schedule: next->status = THREAD_RUNNING
MarkRunning(st, next) == [st EXCEPT ![next] = "RUNNING"]

\* schedule(): st already holds the new status of the running thread
schedule(st, rq, dr) ==
  LET next == next_thread_to_run(rq.l) IN
  /\ status' = MarkRunning(st, next)
  /\ ready_list' = IF rq.l = <<>> THEN <<>> ELSE Tail(rq.l)
  /\ enq_stamp' = rq.o
  /\ running' = next
  /\ thread_ticks' = 0
  /\ destruction_req' =
       IF running /= next /\ st[running] = "DYING" /\ ~IsInitialThread(running)
       THEN Append(dr, running) ELSE dr

\* do_schedule(status): release the pages of the dead threads, then schedule
do_schedule(newStatus, st, rq) ==
  LET victims == Range(destruction_req)
      st1 == [t \in Threads |-> IF t \in victims THEN "FREED" ELSE st[t]]
  IN /\ schedule([st1 EXCEPT ![running] = newStatus], rq, <<>>)
     /\ all_threads' = IF thread_mlfqs
                       THEN SelectSeq(all_threads, LAMBDA t : t \notin victims)
                       ELSE all_threads

\* no context switch: the running thread goes on
Stay(st, rq, tt) ==
  /\ status' = st
  /\ ready_list' = rq.l
  /\ enq_stamp' = rq.o
  /\ thread_ticks' = tt
  /\ UNCHANGED <<running, destruction_req, all_threads, blocked_once>>

\* thread_block
thread_block(st, rq) ==
  /\ schedule([st EXCEPT ![running] = "BLOCKED"], rq, destruction_req)
  /\ blocked_once' = blocked_once \cup {running}
  /\ UNCHANGED all_threads

\* idle: idle_thread = thread_current () has been executed
IdleThreadSet ==
  Len(stack[idle_thread]) > 0 /\ stack[idle_thread][1].pc /= "idle_entry"

IsIdleThread_never(t) == FALSE
\* t == idle_thread, the pointer being NULL until idle sets it
IsIdleThread(t) == t = idle_thread /\ IdleThreadSet

\* thread_yield: the idle thread is never put on the ready list
thread_yield(st, rq, pr) ==
  /\ do_schedule("READY", st,
                 IF ~IsIdleThread(running) THEN RqInsert(rq, running, pr) ELSE rq)
  /\ UNCHANGED blocked_once

UnblockPreempts_never(t, pr) == FALSE
\* thread_unblock: does the woken thread t unseat the running thread?
UnblockPreempts(t, pr) == ~IsIdleThread(running) /\ pr[t] > pr[running]

\* thread_unblock (t) called from thread context
thread_unblock(t, st, rq, pr) ==
  LET rq1 == RqInsert(rq, t, pr)
      st1 == [st EXCEPT ![t] = "READY"]
  IN IF UnblockPreempts(t, pr) THEN thread_yield(st1, rq1, pr)
     ELSE Stay(st1, rq1, thread_ticks)

\* thread_recalculate_priority: the value stored in t->priority
thread_recalculate_priority(base, dons, pr) ==
  LET max_donation_priority == IF dons /= <<>> THEN pr[Head(dons)] ELSE PRI_MIN
  IN IF base > max_donation_priority THEN base ELSE max_donation_priority

\* --------------------------------------------------------- variable groups
thrVars == <<priority, base_priority, donations, nice, recent_cpu, tid, wakeup_tick>>
timeVars == <<ticks, sleep_list, isr_log>>
lockVars == <<holder, held, cond_waiters>>
semVars == <<value, waiters, sema_ups, sema_downs>>
schedVars == <<status, ready_list, enq_stamp, running, thread_ticks,
               destruction_req, all_threads, blocked_once>>
cfgVars == <<thread_mlfqs, load_avg, sema_initial, next_tid, panicked, pages, budget,
             last_tick, tracing>>

SetStack(t, stk) == stack' = [stack EXCEPT ![t] = stk]

\* ------------------------------------------------------- interrupt level
\* intr_set_level (level): the interrupt flag it leaves
intr_set_level(level) == level
\* intr_disable (): the interrupt flag it leaves
intr_disable == "INTR_OFF"
\* intr_enable (), and the sti of the idle loop: the interrupt flag they leave
intr_enable == "INTR_ON"

Scope_on(sv, cur) == Append(sv, "INTR_ON")
\* old_level = intr_disable () executed at level cur by a thread whose open
\* scopes have saved sv
Scope(sv, cur) == Append(sv, cur)

\* the intr_disable scopes that stay open when a thread goes on at pc: those
\* of sema_down around its loop and of sema_up around its increment
OpenScopes(pc) == IF pc \in {"sd_wait", "su_inc"} THEN 1 ELSE 0

\* the step makes its writes at interrupt level l
WritesAt(l) == write_level' = IF tracing THEN l ELSE write_level

\* a step that calls neither intr_disable nor intr_set_level
NoScope ==
  /\ UNCHANGED <<intr_level, old_level>>
  /\ WritesAt(intr_level)

\* intr_set_level (old_level) ends the innermost of the scopes sv of t, which
\* goes on running
Return(t, sv) ==
  /\ intr_level' = intr_set_level(sv[Len(sv)])
  /\ old_level' = [old_level EXCEPT ![t] = Pop(sv)]
  /\ WritesAt(intr_disable)

\* old_level = intr_disable (); ...; intr_set_level (old_level) within one step
Scoped(t) == Return(t, Scope(old_level[t], intr_level))

\* schedule () switches the running thread out with the scopes sv open.  The
\* thread it dispatches goes on after its own call of schedule: a thread
\* that saved no level is a new one, whose kernel_thread calls
\* intr_enable (), or the idle thread, whose loop executes sti; any other
\* ends, innermost first, the scopes that are not open at the pc it goes on
\* at.
Switch(sv) ==
  LET ol == [old_level EXCEPT ![running] = sv]
      nx == running'
      keep == OpenScopes(stack'[nx][Len(stack'[nx])].pc)
  IN /\ old_level' = [ol EXCEPT ![nx] = SubSeq(@, 1, keep)]
     /\ intr_level' = IF ol[nx] = <<>> THEN intr_enable
                      ELSE IF Len(ol[nx]) > keep THEN intr_set_level(ol[nx][keep + 1])
                      ELSE intr_disable
     /\ WritesAt(intr_disable)

\* t is the running test thread, at a point where interrupts are enabled
Busy(t) == ~panicked /\ t = running /\ t /= idle_thread /\ status[t] = "RUNNING"
At(t, pc) == Busy(t) /\ Len(stack[t]) > 0 /\ Top(t).pc = pc
\* t is between two API calls and may make another one
UserAt(t) == At(t, "user") /\ ops < budget

\* the test calls f (obj, arg); ret is the value of a call that returns at
\* once, "-" for a void function or a call that is still going on
Call(f, t, obj, arg, ret) ==
  /\ ops' = ops + 1
  /\ last_call' = IF tracing
                  THEN [f |-> f, t |-> t, obj |-> obj, arg |-> arg, ret |-> ret]
                  ELSE last_call

\* ------------------------------------------------------------ semaphores
SemaMustWait_never(s) == FALSE
\* sema_down: the loop condition, while (sema->value == 0)
SemaMustWait(s) == value[s] = 0

\* sema_down (s) entered, or resumed after thread_block, by t; stk is t's
\* stack below the call.  sema->value is unsigned: the loop keeps the
\* decrement away from zero.  A resumed call is inside the scope it opened
\* when it was entered.
sema_down(t, s, stk) ==
  LET sv == IF Top(t).pc = "sd_wait" THEN old_level[t]
            ELSE Scope(old_level[t], intr_level) IN
  /\ IF SemaMustWait(s)
     THEN /\ waiters' = [waiters EXCEPT ![s] = Append(@, t)]
          /\ thread_block(status, Rq)
          /\ SetStack(t, Append(stk, Fr("sd_wait", s, 0, 0)))
          /\ Switch(sv)
          /\ UNCHANGED <<value, sema_downs>>
     ELSE /\ value' = [value EXCEPT ![s] = @ - 1]
          /\ sema_downs' = [sema_downs EXCEPT ![s] = @ + 1]
          /\ SetStack(t, stk)
          /\ Stay(status, Rq, thread_ticks)
          /\ Return(t, sv)
          /\ UNCHANGED waiters
  /\ UNCHANGED sema_ups

list_pop_front_keep(l) == l
\* list_pop_front (&sema->waiters): the list without its front
list_pop_front(l) == Tail(l)

\* sema_up (s) by t: the front waiter is unblocked BEFORE the value is
\* incremented; when thread_unblock yields, the increment waits for t to be
\* dispatched again (frame su_inc), the scopes of thread_unblock and of
\* thread_yield being open inside that of sema_up.
sema_up(t, s, stk) ==
  LET sv == Scope(old_level[t], intr_level) IN
  /\ IF waiters[s] /= <<>>
     THEN LET w == Head(waiters[s]) IN
          /\ waiters' = [waiters EXCEPT ![s] = list_pop_front(@)]
          /\ thread_unblock(w, status, Rq, priority)
          /\ IF UnblockPreempts(w, priority)
             THEN /\ SetStack(t, Append(stk, Fr("su_inc", s, 0, 0)))
                  /\ Switch(Scope(Scope(sv, intr_disable), intr_disable))
                  /\ UNCHANGED <<value, sema_ups>>
             ELSE /\ SetStack(t, stk)
                  /\ Return(t, sv)
                  /\ value' = [value EXCEPT ![s] = @ + 1]
                  /\ sema_ups' = [sema_ups EXCEPT ![s] = @ + 1]
     ELSE /\ Stay(status, Rq, thread_ticks)
          /\ SetStack(t, stk)
          /\ Return(t, sv)
          /\ value' = [value EXCEPT ![s] = @ + 1]
          /\ sema_ups' = [sema_ups EXCEPT ![s] = @ + 1]
          /\ UNCHANGED waiters
  /\ UNCHANGED sema_downs

\* sema_down called by the test
SemaDown(t, s) ==
  /\ UserAt(t)
  /\ Call("sema_down", t, s, 0, "-")
  /\ sema_down(t, s, stack[t])
  /\ UNCHANGED <<thrVars, timeVars, lockVars, cfgVars>>

\* sema_down: back from thread_block, the loop tests the value again
SemaDownResume(t) ==
  /\ At(t, "sd_wait")
  /\ sema_down(t, Top(t).obj, Pop(stack[t]))
  /\ UNCHANGED <<thrVars, timeVars, lockVars, cfgVars, ops, last_call>>

SemaHasUnit_always(s) == TRUE
\* sema_try_down: if (sema->value > 0)
SemaHasUnit(s) == value[s] > 0

\* sema_try_down called by the test
SemaTryDown(t, s) ==
  /\ UserAt(t)
  /\ Call("sema_try_down", t, s, 0, IF SemaHasUnit(s) THEN "true" ELSE "false")
  /\ IF SemaHasUnit(s)
     THEN /\ value' = [value EXCEPT ![s] = @ - 1]
          /\ sema_downs' = [sema_downs EXCEPT ![s] = @ + 1]
     ELSE UNCHANGED <<value, sema_downs>>
  /\ Stay(status, Rq, thread_ticks)
  /\ UNCHANGED <<thrVars, timeVars, lockVars, cfgVars, stack, waiters, sema_ups>>
  /\ Scoped(t)

\* sema_up called by the test
SemaUp(t, s) ==
  /\ UserAt(t)
  /\ Call("sema_up", t, s, 0, "-")
  /\ sema_up(t, s, stack[t])
  /\ UNCHANGED <<thrVars, timeVars, lockVars, cfgVars>>

\* sema_up: back from the yield inside thread_unblock, sema->value++
SemaUpResume(t) ==
  /\ At(t, "su_inc")
  /\ value' = [value EXCEPT ![Top(t).obj] = @ + 1]
  /\ sema_ups' = [sema_ups EXCEPT ![Top(t).obj] = @ + 1]
  /\ SetStack(t, Pop(stack[t]))
  /\ Stay(status, Rq, thread_ticks)
  /\ UNCHANGED <<thrVars, timeVars, lockVars, cfgVars, ops, last_call, waiters,
                 sema_downs>>
  /\ Return(t, old_level[t])

\* ----------------------------------------------------------------- locks
lock_held_by_current_thread_never(t, l) == FALSE
\* lock_held_by_current_thread
lock_held_by_current_thread(t, l) == holder[l] = t

\* lock_acquire up to the return of sema_down
lock_acquire(t, l, stk) == sema_down(t, l, Append(stk, Fr("la_set", l, 0, 0)))

\* lock_acquire called by the test
LockAcquire(t, l) ==
  /\ UserAt(t)
  /\ ~lock_held_by_current_thread(t, l)
  /\ Call("lock_acquire", t, l, 0, "-")
  /\ lock_acquire(t, l, stack[t])
  /\ UNCHANGED <<thrVars, timeVars, lockVars, cfgVars>>

\* lock_acquire / lock_try_acquire: lock->holder = thread_current ()
LockSetHolder(t) ==
  /\ At(t, "la_set")
  /\ holder' = [holder EXCEPT ![Top(t).obj] = t]
  /\ held' = [held EXCEPT ![t] = @ \cup {Top(t).obj}]
  /\ UNCHANGED cond_waiters
  /\ SetStack(t, Pop(stack[t]))
  /\ Stay(status, Rq, thread_ticks)
  /\ UNCHANGED <<thrVars, timeVars, semVars, cfgVars, ops, last_call>>
  /\ NoScope

\* lock_try_acquire called by the test
LockTryAcquire(t, l) ==
  /\ UserAt(t)
  /\ ~lock_held_by_current_thread(t, l)
  /\ Call("lock_try_acquire", t, l, 0, IF SemaHasUnit(l) THEN "true" ELSE "false")
  /\ IF SemaHasUnit(l)
     THEN /\ value' = [value EXCEPT ![l] = @ - 1]
          /\ sema_downs' = [sema_downs EXCEPT ![l] = @ + 1]
          /\ SetStack(t, Append(stack[t], Fr("la_set", l, 0, 0)))
     ELSE UNCHANGED <<value, sema_downs, stack>>
  /\ Stay(status, Rq, thread_ticks)
  /\ UNCHANGED <<thrVars, timeVars, lockVars, cfgVars, waiters, sema_ups>>
  /\ Scoped(t)

\* lock_release up to the call of sema_up: lock->holder = NULL
lock_release(t, l, stk) ==
  /\ holder' = [holder EXCEPT ![l] = NULL]
  /\ held' = [held EXCEPT ![t] = @ \ {l}]
  /\ UNCHANGED cond_waiters
  /\ SetStack(t, Append(stk, Fr("lr_up", l, 0, 0)))

\* lock_release called by the test
LockRelease(t, l) ==
  /\ UserAt(t)
  /\ lock_held_by_current_thread(t, l)
  /\ Call("lock_release", t, l, 0, "-")
  /\ lock_release(t, l, stack[t])
  /\ Stay(status, Rq, thread_ticks)
  /\ UNCHANGED <<thrVars, timeVars, semVars, cfgVars>>
  /\ NoScope

\* lock_release: sema_up (&lock->semaphore)
LockReleaseUp(t) ==
  /\ At(t, "lr_up")
  /\ sema_up(t, Top(t).obj, Pop(stack[t]))
  /\ UNCHANGED <<thrVars, timeVars, lockVars, cfgVars, ops, last_call>>

\* the lock functions that assert on the holder
LockCalls == {"lock_acquire", "lock_try_acquire", "lock_release"}

\* ASSERT (!lock_held_by_current_thread (lock)) in lock_acquire and
\* lock_try_acquire, ASSERT (lock_held_by_current_thread (lock)) in lock_release
LockAssertFail(t, l, f) ==
  /\ UserAt(t)
  /\ lock_held_by_current_thread(t, l) /= (f = "lock_release")
  /\ panicked' = TRUE
  /\ Call(f, t, l, 0, "-")
  /\ UNCHANGED <<thrVars, timeVars, lockVars, semVars, stack, status, ready_list,
                 enq_stamp, running, thread_ticks, destruction_req, all_threads,
                 blocked_once, thread_mlfqs, load_avg, sema_initial, next_tid, pages,
                 budget, last_tick, tracing>>
  /\ NoScope

\* --------------------------------------------------- condition variables
\* cond_wait called by the test: sema_init (&waiter.semaphore, 0) and
\* list_push_back (&cond->waiters, &waiter.elem)
CondWait(t, c, l) ==
  /\ UserAt(t)
  /\ lock_held_by_current_thread(t, l)
  /\ Call("cond_wait", t, l, 0, "-")
  /\ LET ws == WaiterSema[t] IN
     /\ value' = [value EXCEPT ![ws] = 0]
     /\ waiters' = [waiters EXCEPT ![ws] = <<>>]
     /\ sema_initial' = [sema_initial EXCEPT ![ws] = 0]
     /\ sema_ups' = [sema_ups EXCEPT ![ws] = 0]
     /\ sema_downs' = [sema_downs EXCEPT ![ws] = 0]
  /\ cond_waiters' = [cond_waiters EXCEPT ![c] = Append(@, t)]
  /\ SetStack(t, Append(stack[t], Fr("cw_rel", l, 0, 0)))
  /\ UNCHANGED <<thrVars, timeVars, holder, held, schedVars, thread_mlfqs, load_avg,
                 next_tid, panicked, pages, budget, last_tick, tracing>>
  /\ NoScope

\* cond_wait: lock_release (lock)
CondWaitRelease(t) ==
  /\ At(t, "cw_rel")
  /\ lock_held_by_current_thread(t, Top(t).obj)
  /\ lock_release(t, Top(t).obj, Append(Pop(stack[t]), Fr("cw_down", Top(t).obj, 0, 0)))
  /\ UNCHANGED <<thrVars, timeVars, semVars, cfgVars, schedVars, ops, last_call>>
  /\ NoScope

\* cond_wait: sema_down (&waiter.semaphore)
CondWaitDown(t) ==
  /\ At(t, "cw_down")
  /\ sema_down(t, WaiterSema[t], Append(Pop(stack[t]), Fr("cw_acq", Top(t).obj, 0, 0)))
  /\ UNCHANGED <<thrVars, timeVars, lockVars, cfgVars, ops, last_call>>

\* cond_wait: lock_acquire (lock)
CondWaitAcquire(t) ==
  /\ At(t, "cw_acq")
  /\ ~lock_held_by_current_thread(t, Top(t).obj)
  /\ lock_acquire(t, Top(t).obj, Pop(stack[t]))
  /\ UNCHANGED <<thrVars, timeVars, lockVars, cfgVars, ops, last_call>>

\* cond_signal: the front of cond->waiters is popped and its semaphore upped
cond_signal(t, c, stk) ==
  IF cond_waiters[c] /= <<>>
  THEN /\ cond_waiters' = [cond_waiters EXCEPT ![c] = Tail(@)]
       /\ sema_up(t, WaiterSema[Head(cond_waiters[c])], stk)
  ELSE /\ SetStack(t, stk)
       /\ Stay(status, Rq, thread_ticks)
       /\ NoScope
       /\ UNCHANGED <<cond_waiters, semVars>>

\* cond_signal called by the test
CondSignal(t, c, l) ==
  /\ UserAt(t)
  /\ lock_held_by_current_thread(t, l)
  /\ Call("cond_signal", t, l, 0, "-")
  /\ cond_signal(t, c, stack[t])
  /\ UNCHANGED <<thrVars, timeVars, holder, held, cfgVars>>

\* cond_broadcast called by the test: while (!list_empty (&cond->waiters))
CondBroadcast(t, c, l) ==
  /\ UserAt(t)
  /\ lock_held_by_current_thread(t, l)
  /\ Call("cond_broadcast", t, l, 0, "-")
  /\ SetStack(t, Append(stack[t], Fr("cb_loop", c, 0, 0)))
  /\ UNCHANGED <<thrVars, timeVars, lockVars, semVars, cfgVars, schedVars>>
  /\ NoScope

\* cond_broadcast: one turn of the loop, or its end
CondBroadcastLoop(t) ==
  /\ At(t, "cb_loop")
  /\ IF cond_waiters[Top(t).obj] /= <<>>
     THEN cond_signal(t, Top(t).obj, stack[t])
     ELSE /\ SetStack(t, Pop(stack[t]))
          /\ Stay(status, Rq, thread_ticks)
          /\ NoScope
          /\ UNCHANGED <<cond_waiters, semVars>>
  /\ UNCHANGED <<thrVars, timeVars, holder, held, cfgVars, ops, last_call>>

\* --------------------------------------------------------------- threads

\* palloc_get_page: the next page that was never handed out
FreeSlots == {i \in 1..pages : status[Workers[i]] = "NONE"}
NewThread == Workers[CHOOSE i \in FreeSlots : \A j \in FreeSlots : i <= j]

\* thread_create: palloc_get_page and init_thread; the new thread h is
\* Blocked and on no list
ThreadCreate(t, p) ==
  /\ UserAt(t)
  /\ FreeSlots /= {}
  /\ thread_mlfqs => p = PRI_DEFAULT
  /\ Call("thread_create", t, NewThread, p, "-")
  /\ LET h == NewThread IN
     /\ status' = [status EXCEPT ![h] = "BLOCKED"]
     /\ wakeup_tick' = [wakeup_tick EXCEPT ![h] = 0]
     /\ donations' = [donations EXCEPT ![h] = <<>>]
     /\ IF thread_mlfqs
        THEN /\ nice' = [nice EXCEPT ![h] = nice[t]]
             /\ recent_cpu' = [recent_cpu EXCEPT ![h] = recent_cpu[t]]
             /\ all_threads' = Append(all_threads, h)
             /\ priority' = [priority EXCEPT
                               ![h] = mlfqs_calculate_priority(recent_cpu[t], nice[t])]
             /\ base_priority' = [base_priority EXCEPT ![h] = 0]
        ELSE /\ priority' = [priority EXCEPT ![h] = p]
             /\ base_priority' = [base_priority EXCEPT ![h] = p]
             /\ nice' = [nice EXCEPT ![h] = 0]
             /\ recent_cpu' = [recent_cpu EXCEPT ![h] = 0]
             /\ UNCHANGED all_threads
     /\ stack' = [stack EXCEPT ![h] = <<UserFrame>>,
                               ![t] = Append(@, Fr("tc_tid", h, p, 0))]
  /\ UNCHANGED <<tid, timeVars, lockVars, semVars, cfgVars, ready_list, enq_stamp,
                 running, thread_ticks, destruction_req, blocked_once>>
  /\ NoScope

ThreadCreateFail_leak(t) ==
  /\ UserAt(t)
  /\ Call("thread_create", t, NULL, 0, "TID_ERROR")
  /\ next_tid' = next_tid + 1
  /\ UNCHANGED <<thrVars, timeVars, lockVars, semVars, schedVars, stack,
                 thread_mlfqs, load_avg, sema_initial, panicked, pages, budget, last_tick,
                 tracing>>
  /\ NoScope
\* thread_create: palloc_get_page returns NULL, the call returns TID_ERROR
ThreadCreateFail(t) ==
  /\ UserAt(t)
  /\ Call("thread_create", t, NULL, 0, "TID_ERROR")
  /\ UNCHANGED <<thrVars, timeVars, lockVars, semVars, cfgVars, schedVars, stack>>
  /\ NoScope

\* allocate_tid: lock_acquire (&tid_lock)
AllocateTidLock(t) ==
  /\ At(t, "tc_tid")
  /\ ~lock_held_by_current_thread(t, tid_lock)
  /\ lock_acquire(t, tid_lock,
                  Append(Pop(stack[t]), Fr("tc_inc", Top(t).obj, Top(t).arg, 0)))
  /\ UNCHANGED <<thrVars, timeVars, lockVars, cfgVars, ops, last_call>>

NextTidAfter_same(n) == n
\* allocate_tid: the value of next_tid after tid = next_tid++
NextTidAfter(n) == n + 1

\* allocate_tid: tid = next_tid++
AllocateTidInc(t) ==
  /\ At(t, "tc_inc")
  /\ next_tid' = NextTidAfter(next_tid)
  /\ SetStack(t, Append(Pop(stack[t]), Fr("tc_rel", Top(t).obj, Top(t).arg, next_tid)))
  /\ UNCHANGED <<thrVars, timeVars, lockVars, semVars, schedVars, ops, last_call,
                 thread_mlfqs, load_avg, sema_initial, panicked, pages, budget, last_tick,
                 tracing>>
  /\ NoScope

\* allocate_tid: lock_release (&tid_lock)
AllocateTidUnlock(t) ==
  /\ At(t, "tc_rel")
  /\ lock_held_by_current_thread(t, tid_lock)
  /\ lock_release(t, tid_lock,
                  Append(Pop(stack[t]), Fr("tc_unblock", Top(t).obj, Top(t).arg, Top(t).arg2)))
  /\ UNCHANGED <<thrVars, timeVars, semVars, cfgVars, schedVars, ops, last_call>>
  /\ NoScope

\* thread_create: t->tid = tid; thread_unblock (t)
ThreadCreateUnblock(t) ==
  /\ At(t, "tc_unblock")
  /\ tid' = [tid EXCEPT ![Top(t).obj] = Top(t).arg2]
  /\ thread_unblock(Top(t).obj, status, Rq, priority)
  /\ SetStack(t, Append(Pop(stack[t]), Fr("tc_ret", Top(t).obj, Top(t).arg, Top(t).arg2)))
  /\ UNCHANGED <<priority, base_priority, donations, nice, recent_cpu, wakeup_tick,
                 timeVars, lockVars, semVars, cfgVars, ops, last_call>>
  /\ IF UnblockPreempts(Top(t).obj, priority)
     THEN Switch(Scope(Scope(old_level[t], intr_level), intr_disable))
     ELSE Scoped(t)

\* thread_create: return tid
ThreadCreateRet(t) ==
  /\ At(t, "tc_ret")
  /\ SetStack(t, Pop(stack[t]))
  /\ UNCHANGED <<thrVars, timeVars, lockVars, semVars, cfgVars, schedVars, ops, last_call>>
  /\ NoScope

FrontOutranks_or_ties(p) == ready_list /= <<>> /\ priority[Head(ready_list)] >= p
\* the front of the ready list outranks priority p
FrontOutranks(p) == ready_list /= <<>> /\ priority[Head(ready_list)] > p

SetPriorityIgnored_never == FALSE
\* thread_set_priority: if (thread_mlfqs) return
SetPriorityIgnored == thread_mlfqs

\* thread_set_priority called by the test
ThreadSetPriority(t, p) ==
  /\ UserAt(t)
  /\ Call("thread_set_priority", t, NULL, p, "-")
  /\ IF SetPriorityIgnored
     THEN UNCHANGED <<priority, base_priority, schedVars>>
     ELSE LET np == thread_recalculate_priority(p, donations[t], priority)
              pr == [priority EXCEPT ![t] = np]
          IN /\ base_priority' = [base_priority EXCEPT ![t] = p]
             /\ priority' = pr
             /\ IF FrontOutranks(np) THEN thread_yield(status, Rq, pr)
                ELSE Stay(status, Rq, thread_ticks)
  /\ UNCHANGED <<donations, nice, recent_cpu, tid, wakeup_tick, timeVars, lockVars,
                 semVars, cfgVars, stack>>
  /\ IF SetPriorityIgnored THEN NoScope
     ELSE IF FrontOutranks(thread_recalculate_priority(p, donations[t], priority))
     THEN Switch(Scope(Scope(old_level[t], intr_level), intr_disable))
     ELSE Scoped(t)

\* thread_set_nice called by the test
ThreadSetNice(t, n) ==
  /\ UserAt(t)
  /\ Call("thread_set_nice", t, NULL, n, "-")
  /\ IF ~thread_mlfqs
     THEN UNCHANGED <<priority, nice, schedVars>>
     ELSE LET np == mlfqs_calculate_priority(recent_cpu[t], n)
              pr == [priority EXCEPT ![t] = np]
          IN /\ nice' = [nice EXCEPT ![t] = n]
             /\ priority' = pr
             /\ IF FrontOutranks(np) THEN thread_yield(status, Rq, pr)
                ELSE Stay(status, Rq, thread_ticks)
  /\ UNCHANGED <<base_priority, donations, recent_cpu, tid, wakeup_tick, timeVars,
                 lockVars, semVars, cfgVars, stack>>
  /\ IF ~thread_mlfqs THEN NoScope
     ELSE IF FrontOutranks(mlfqs_calculate_priority(recent_cpu[t], n))
     THEN Switch(Scope(Scope(old_level[t], intr_level), intr_disable))
     ELSE Scoped(t)

\* thread_yield called by the test
ThreadYield(t) ==
  /\ UserAt(t)
  /\ Call("thread_yield", t, NULL, 0, "-")
  /\ thread_yield(status, Rq, priority)
  /\ UNCHANGED <<thrVars, timeVars, lockVars, semVars, cfgVars, stack>>
  /\ Switch(Scope(old_level[t], intr_level))

\* thread_exit called by the test, or the thread function returning
ThreadExit(t) ==
  /\ UserAt(t)
  /\ Call("thread_exit", t, NULL, 0, "-")
  /\ do_schedule("DYING", status, Rq)
  /\ blocked_once' = blocked_once \cup {t}
  /\ SetStack(t, <<>>)
  /\ UNCHANGED <<thrVars, timeVars, lockVars, semVars, cfgVars>>
  /\ Switch(old_level[t])

\* ----------------------------------------------------------------- timer
thread_wakeup_less_func_desc(wt, a, b) == wt[a] > wt[b]
\* thread_wakeup_less_func: ascending wakeup_tick
thread_wakeup_less_func(wt, a, b) == wt[a] < wt[b]

NoTicksToSleep_negative(n) == n < 0
\* timer_sleep: if (ticks <= 0) return
NoTicksToSleep(n) == n <= 0

\* timer_sleep called by the test: returns at once for ticks <= 0, else reads
\* timer_ticks () and calls thread_sleep_until
TimerSleep(t, n) ==
  /\ UserAt(t)
  /\ Call("timer_sleep", t, NULL, n, "-")
  /\ IF NoTicksToSleep(n) THEN UNCHANGED stack
     ELSE SetStack(t, Append(stack[t], Fr("ts_until", NULL, ticks + n, 0)))
  /\ UNCHANGED <<thrVars, timeVars, lockVars, semVars, cfgVars, schedVars>>
  /\ IF NoTicksToSleep(n) THEN NoScope ELSE Scoped(t)

\* thread_sleep_until: ordered insertion in sleep_list, thread_block
ThreadSleepUntil(t) ==
  /\ At(t, "ts_until")
  /\ LET wt == [wakeup_tick EXCEPT ![t] = Top(t).arg] IN
     /\ wakeup_tick' = wt
     /\ sleep_list' = list_insert_ordered(sleep_list, t,
                         LAMBDA a, b : thread_wakeup_less_func(wt, a, b))
  /\ thread_block(status, Rq)
  /\ SetStack(t, Pop(stack[t]))
  /\ UNCHANGED <<priority, base_priority, donations, nice, recent_cpu, tid, ticks,
                 isr_log,
                 lockVars, semVars, cfgVars, ops, last_call>>
  /\ Switch(Scope(old_level[t], intr_level))

WakeupDue_early(wt, now) == wt <= now + 1
\* thread_wakeup: if (t->wakeup_tick <= current_ticks)
WakeupDue(wt, now) == wt <= now

\* thread_wakeup: the sleepers at the head of the list whose time has come
RECURSIVE WakeCount(_, _)
WakeCount(sl, now) ==
  IF sl = <<>> \/ ~WakeupDue(wakeup_tick[Head(sl)], now) THEN 0
  ELSE 1 + WakeCount(Tail(sl), now)

RECURSIVE RqInsertAll(_, _, _)
RqInsertAll(rq, ts, pr) ==
  IF ts = <<>> THEN rq ELSE RqInsertAll(RqInsert(rq, Head(ts), pr), Tail(ts), pr)

SliceExpired_late(tt) == tt > TIME_SLICE
\* thread_tick: if (++thread_ticks >= TIME_SLICE), tt the incremented counter
SliceExpired(tt) == tt >= TIME_SLICE

\* The statements timer_interrupt goes through, in the order of the code:
\* ticks++; thread_tick (), which counts the tick and asks for a yield when
\* the slice is used up (expired); thread_wakeup (ticks), whose
\* thread_unblock asks for a yield when a sleeper it wakes outranks the
\* running thread (outranked).
timer_interrupt_steps(expired, outranked) ==
  <<"ticks++", "thread_tick">>
  \o (IF expired THEN <<"slice:intr_yield_on_return">> ELSE <<>>)
  \o <<"thread_wakeup">>
  \o (IF outranked THEN <<"unblock:intr_yield_on_return">> ELSE <<>>)

\* timer_interrupt: ticks++, thread_tick, thread_wakeup, then the yield that
\* intr_yield_on_return asked for.  The interrupt clears the interrupt flag
\* and keeps the old one in the interrupt frame, from which the return from
\* the interrupt restores it.
Tick ==
  /\ ~panicked
  /\ IntrOn
  /\ ticks < last_tick
  /\ LET now == ticks + 1
         k == WakeCount(sleep_list, now)
         woken == SubSeq(sleep_list, 1, k)
         rq1 == RqInsertAll(Rq, woken, priority)
         st1 == [t \in Threads |-> IF t \in Range(woken) THEN "READY" ELSE status[t]]
         yield_on_return == \/ SliceExpired(thread_ticks + 1)
                            \/ \E w \in Range(woken) : UnblockPreempts(w, priority)
     IN /\ ticks' = now
        /\ sleep_list' = SubSeq(sleep_list, k + 1, Len(sleep_list))
        /\ isr_log' = IF tracing
                      THEN timer_interrupt_steps(
                             SliceExpired(thread_ticks + 1),
                             \E w \in Range(woken) : UnblockPreempts(w, priority))
                      ELSE isr_log
        /\ IF yield_on_return THEN thread_yield(st1, rq1, priority)
           ELSE Stay(st1, rq1, thread_ticks + 1)
        /\ IF running = idle_thread /\ Top(idle_thread).pc = "hlt"
           THEN SetStack(idle_thread, <<Fr("idle_loop", NULL, 0, 0)>>)
           ELSE UNCHANGED stack
        /\ LET intr_frame == Scope(old_level[running], intr_level) IN
           IF yield_on_return THEN Switch(Scope(intr_frame, intr_disable))
           ELSE Return(running, intr_frame)
  /\ UNCHANGED <<thrVars, lockVars, semVars, cfgVars, ops, last_call>>

\* idle: woken from hlt by an interrupt, intr_disable (); thread_block ()
IdleLoop ==
  /\ ~panicked
  /\ running = idle_thread
  /\ Top(idle_thread).pc = "idle_loop"
  /\ thread_block(status, Rq)
  /\ SetStack(idle_thread, <<Fr("hlt", NULL, 0, 0)>>)
  /\ UNCHANGED <<thrVars, timeVars, lockVars, semVars, cfgVars, ops, last_call>>
  /\ Switch(old_level[idle_thread])

\* ----------------------------------------------------------------- MLFQS
\* The update functions of the MLFQS scheduler.  Each asserts
\* intr_context (): it runs inside an interrupt handler, at a point where
\* the interrupted thread had interrupts enabled.
InHandler == ~panicked /\ thread_mlfqs /\ IntrOn /\ ops < budget

\* mlfqs_calculate_priority (t): the idle thread is left alone
mlfqs_calculate_priority_of(pr, t) ==
  IF t = idle_thread THEN pr
  ELSE [pr EXCEPT ![t] = mlfqs_calculate_priority(recent_cpu[t], nice[t])]

\* mlfqs_update_all_priorities: the loop over all_threads
RECURSIVE mlfqs_update_all_priorities(_, _)
mlfqs_update_all_priorities(pr, ts) ==
  IF ts = <<>> THEN pr
  ELSE mlfqs_update_all_priorities(mlfqs_calculate_priority_of(pr, Head(ts)), Tail(ts))

\* a handler calls mlfqs_update_all_priorities
MlfqsUpdateAllPriorities ==
  /\ InHandler
  /\ Call("mlfqs_update_all_priorities", running, NULL, 0, "-")
  /\ priority' = mlfqs_update_all_priorities(priority, all_threads)
  /\ UNCHANGED <<base_priority, donations, nice, recent_cpu, tid, wakeup_tick,
                 timeVars, lockVars, semVars, cfgVars, schedVars, stack>>
  /\ Scoped(running)

\* mlfqs_update_load_avg: ready_threads
ready_threads == Len(ready_list) + IF running = idle_thread THEN 0 ELSE 1

LoadAvgDecay_one == INT_TO_FP(1)
\* mlfqs_update_load_avg: the coefficient 59/60
LoadAvgDecay == FP_DIV_MIXED(INT_TO_FP(59), 60)

\* mlfqs_update_load_avg: the value stored in load_avg
mlfqs_update_load_avg(la, rt) ==
  LET term1 == FP_MULT(LoadAvgDecay, la)
      term2 == FP_MULT_MIXED(FP_DIV_MIXED(INT_TO_FP(1), 60), rt)
  IN FP_ADD(term1, term2)

\* a handler calls mlfqs_update_load_avg
MlfqsUpdateLoadAvg ==
  /\ InHandler
  /\ Call("mlfqs_update_load_avg", running, NULL, ready_threads, "-")
  /\ load_avg' = mlfqs_update_load_avg(load_avg, ready_threads)
  /\ UNCHANGED <<thrVars, timeVars, lockVars, semVars, schedVars, stack,
                 thread_mlfqs, sema_initial, next_tid, panicked, pages, budget,
                 last_tick, tracing>>
  /\ Scoped(running)

\* ------------------------------------------------------------------ Next
Next ==
  \/ \E t \in Threads, s \in UserSemas : SemaDown(t, s)
  \/ \E t \in Threads, s \in UserSemas : SemaTryDown(t, s)
  \/ \E t \in Threads, s \in UserSemas : SemaUp(t, s)
  \/ \E t \in Threads : SemaDownResume(t)
  \/ \E t \in Threads : SemaUpResume(t)
  \/ \E t \in Threads, l \in GenLocks : LockAcquire(t, l)
  \/ \E t \in Threads, l \in GenLocks : LockTryAcquire(t, l)
  \/ \E t \in Threads, l \in GenLocks : LockRelease(t, l)
  \/ \E t \in Threads : LockSetHolder(t)
  \/ \E t \in Threads : LockReleaseUp(t)
  \/ \E t \in Threads, l \in GenLocks, f \in LockCalls : LockAssertFail(t, l, f)
  \/ \E t \in Threads, p \in Prios : ThreadCreate(t, p)
  \/ \E t \in Threads : ThreadCreateFail(t)
  \/ \E t \in Threads : AllocateTidLock(t)
  \/ \E t \in Threads : AllocateTidInc(t)
  \/ \E t \in Threads : AllocateTidUnlock(t)
  \/ \E t \in Threads : ThreadCreateUnblock(t)
  \/ \E t \in Threads : ThreadCreateRet(t)
  \/ \E t \in Threads, p \in Prios : ThreadSetPriority(t, p)
  \/ \E t \in Threads, n \in Nices : ThreadSetNice(t, n)
  \/ \E t \in Threads : ThreadYield(t)
  \/ \E t \in Threads : ThreadExit(t)
  \/ \E t \in Threads, n \in SleepArgs : TimerSleep(t, n)
  \/ \E t \in Threads : ThreadSleepUntil(t)
  \/ Tick
  \/ IdleLoop

Spec == Init /\ [][Next]_vars

\* ------------------------------------------------- the lock-only scenario
\* A test that only creates threads and takes and releases locks, in
\* strict-priority mode and with no timer interrupt arriving: long enough
\* for chains of waiters over two locks.
MaxLockOps == 6
LockPrios == {40, 50}

InitLocks == Boot(MaxLockOps, 2, FALSE) /\ ~thread_mlfqs

NextLocks ==
  \/ \E t \in Threads, l \in UserLocks : LockAcquire(t, l)
  \/ \E t \in Threads, l \in UserLocks : LockRelease(t, l)
  \/ \E t \in Threads : LockSetHolder(t)
  \/ \E t \in Threads : LockReleaseUp(t)
  \/ \E t \in Threads : SemaDownResume(t)
  \/ \E t \in Threads : SemaUpResume(t)
  \/ \E t \in Threads, p \in LockPrios : ThreadCreate(t, p)
  \/ \E t \in Threads : AllocateTidLock(t)
  \/ \E t \in Threads : AllocateTidInc(t)
  \/ \E t \in Threads : AllocateTidUnlock(t)
  \/ \E t \in Threads : ThreadCreateUnblock(t)
  \/ \E t \in Threads : ThreadCreateRet(t)

SpecLocks == InitLocks /\ [][NextLocks]_vars

\* --------------------------------------------- the condition scenario
\* A test of one condition variable guarded by L1, in strict-priority mode
\* and with no timer interrupt arriving.
MaxCondOps == 8
CondPrios == {35, 45}

InitCond == Boot(MaxCondOps, 2, FALSE) /\ ~thread_mlfqs

NextCond ==
  \/ \E t \in Threads, l \in GenLocks : LockAcquire(t, l)
  \/ \E t \in Threads, l \in GenLocks : LockRelease(t, l)
  \/ \E t \in Threads : LockSetHolder(t)
  \/ \E t \in Threads : LockReleaseUp(t)
  \/ \E t \in Threads : SemaDownResume(t)
  \/ \E t \in Threads : SemaUpResume(t)
  \/ \E t \in Threads, c \in Conds, l \in GenLocks : CondWait(t, c, l)
  \/ \E t \in Threads : CondWaitRelease(t)
  \/ \E t \in Threads : CondWaitDown(t)
  \/ \E t \in Threads : CondWaitAcquire(t)
  \/ \E t \in Threads, c \in Conds, l \in GenLocks : CondSignal(t, c, l)
  \/ \E t \in Threads, c \in Conds, l \in GenLocks : CondBroadcast(t, c, l)
  \/ \E t \in Threads : CondBroadcastLoop(t)
  \/ \E t \in Threads, p \in CondPrios : ThreadCreate(t, p)
  \/ \E t \in Threads : AllocateTidLock(t)
  \/ \E t \in Threads : AllocateTidInc(t)
  \/ \E t \in Threads : AllocateTidUnlock(t)
  \/ \E t \in Threads : ThreadCreateUnblock(t)
  \/ \E t \in Threads : ThreadCreateRet(t)

SpecCond == InitCond /\ [][NextCond]_vars

\* ------------------------------------------------- the timer scenario
\* A test whose threads only sleep, with timer interrupts arriving at any
\* point where interrupts are enabled.
MaxTimerOps == 5
TimerPrios == {40}
TimerSleepArgs == {-1, 0, 1, 2, 3}

InitTimer == Boot(MaxTimerOps, 2, TRUE) /\ ~thread_mlfqs

NextTimer ==
  \/ \E t \in Threads, n \in TimerSleepArgs : TimerSleep(t, n)
  \/ \E t \in Threads : ThreadSleepUntil(t)
  \/ Tick
  \/ IdleLoop
  \/ \E t \in Threads, p \in TimerPrios : ThreadCreate(t, p)
  \/ \E t \in Threads : AllocateTidLock(t)
  \/ \E t \in Threads : AllocateTidInc(t)
  \/ \E t \in Threads : AllocateTidUnlock(t)
  \/ \E t \in Threads : ThreadCreateUnblock(t)
  \/ \E t \in Threads : ThreadCreateRet(t)
  \/ \E t \in Threads : LockSetHolder(t)
  \/ \E t \in Threads : LockReleaseUp(t)

SpecTimer == InitTimer /\ [][NextTimer]_vars

\* --------------------------------------------------- the nap scenario
\* Two threads that sleep for a tick or two.  The timer device raises its
\* interrupt whatever the threads do, and in this scenario no thread stays
\* in a section with interrupts disabled.
MaxNapOps == 3
NapArgs == {1, 2}

InitNap == Boot(MaxNapOps, 1, FALSE) /\ ~thread_mlfqs

NextNap ==
  \/ \E t \in Threads, n \in NapArgs : TimerSleep(t, n)
  \/ \E t \in Threads : ThreadSleepUntil(t)
  \/ Tick
  \/ IdleLoop
  \/ \E t \in Threads, p \in TimerPrios : ThreadCreate(t, p)
  \/ \E t \in Threads : AllocateTidLock(t)
  \/ \E t \in Threads : AllocateTidInc(t)
  \/ \E t \in Threads : AllocateTidUnlock(t)
  \/ \E t \in Threads : ThreadCreateUnblock(t)
  \/ \E t \in Threads : ThreadCreateRet(t)
  \/ \E t \in Threads : LockSetHolder(t)
  \/ \E t \in Threads : LockReleaseUp(t)

FairSpecNap == InitNap /\ [][NextNap]_vars /\ WF_vars(Tick)

\* ------------------------------------------------- the traced scenario
\* The general test again, shorter, with every API call recorded in
\* last_call.
MaxCallOps == 3

InitCalls == Boot(MaxCallOps, 2, TRUE)

SpecCalls == InitCalls /\ [][Next]_vars

\* --------------------------------------------------- the tid scenario
\* Threads that create threads, with timer interrupts arriving at any point
\* where interrupts are enabled, inside allocate_tid included, and a sleeper
\* whose wake-up preempts the creator.
MaxTidOps == 4
TidPrios == {31, 40}
TidSleepArgs == {1}

InitTid == Boot(MaxTidOps, 3, FALSE) /\ ~thread_mlfqs

NextTid ==
  \/ \E t \in Threads, p \in TidPrios : ThreadCreate(t, p)
  \/ \E t \in Threads : AllocateTidLock(t)
  \/ \E t \in Threads : AllocateTidInc(t)
  \/ \E t \in Threads : AllocateTidUnlock(t)
  \/ \E t \in Threads : ThreadCreateUnblock(t)
  \/ \E t \in Threads : ThreadCreateRet(t)
  \/ \E t \in Threads : LockSetHolder(t)
  \/ \E t \in Threads : LockReleaseUp(t)
  \/ \E t \in Threads : SemaDownResume(t)
  \/ \E t \in Threads : SemaUpResume(t)
  \/ \E t \in Threads, n \in TidSleepArgs : TimerSleep(t, n)
  \/ \E t \in Threads : ThreadSleepUntil(t)
  \/ Tick
  \/ IdleLoop

SpecTid == InitTid /\ [][NextTid]_vars

\* ------------------------------------------------- the formula scenario
\* The MLFQS formulas applied to threads whose recent_cpu and nice fields,
\* and to a load_avg, drawn from the sets below; thread creation and exit
\* vary the number of ready threads and let the idle thread run.
MaxMlfqsOps == 3
RecentCpuInputs == {-5 * F, -3, 0, 3 * F, 4 * F, 10 * F + 1, 300 * F}
NiceInputs == {-20, 0, 5, 20}
LoadAvgInputs == {0, 1, 60, F, 3 * F + 7, 8 * F}

InitMlfqs ==
  /\ \E rc \in RecentCpuInputs, nc \in NiceInputs, la \in LoadAvgInputs :
        BootAt(MaxMlfqsOps, 2, TRUE, 0, rc, nc, la)
  /\ thread_mlfqs

NextMlfqs ==
  \/ MlfqsUpdateAllPriorities
  \/ MlfqsUpdateLoadAvg
  \/ \E t \in Threads : ThreadCreate(t, PRI_DEFAULT)
  \/ \E t \in Threads : AllocateTidLock(t)
  \/ \E t \in Threads : AllocateTidInc(t)
  \/ \E t \in Threads : AllocateTidUnlock(t)
  \/ \E t \in Threads : ThreadCreateUnblock(t)
  \/ \E t \in Threads : ThreadCreateRet(t)
  \/ \E t \in Threads : LockSetHolder(t)
  \/ \E t \in Threads : LockReleaseUp(t)
  \/ \E t \in Threads : ThreadExit(t)
  \/ \E t \in Threads, n \in Nices : ThreadSetNice(t, n)

SpecMlfqs == InitMlfqs /\ [][NextMlfqs]_vars

\* ------------------------------------------------- the second scenario
\* An MLFQS run that starts two ticks before the tick count reaches
\* TIMER_FREQ: main has been running alone since boot.
MaxSecondOps == 2
TIMER_FREQ == 100
SecondSleepArgs == {1}

InitSecond == BootAt(MaxSecondOps, 1, FALSE, TIMER_FREQ - 2, 0, 0, 0) /\ thread_mlfqs

NextSecond ==
  \/ Tick
  \/ IdleLoop
  \/ \E t \in Threads : ThreadCreate(t, PRI_DEFAULT)
  \/ \E t \in Threads : AllocateTidLock(t)
  \/ \E t \in Threads : AllocateTidInc(t)
  \/ \E t \in Threads : AllocateTidUnlock(t)
  \/ \E t \in Threads : ThreadCreateUnblock(t)
  \/ \E t \in Threads : ThreadCreateRet(t)
  \/ \E t \in Threads : LockSetHolder(t)
  \/ \E t \in Threads : LockReleaseUp(t)
  \/ \E t \in Threads, n \in Nices : ThreadSetNice(t, n)
  \/ \E t \in Threads, n \in SecondSleepArgs : TimerSleep(t, n)
  \/ \E t \in Threads : ThreadSleepUntil(t)

SpecSecond == InitSecond /\ [][NextSecond]_vars

\* ------------------------------------------------ the ping-pong scenario
\* sema_self_test run by main, which may first give itself a priority
\* other than that of the helper; timer interrupts arrive at any point where
\* interrupts are enabled.  The user frame of a thread holds the loop
\* counter i in arg and, in arg2, whether the first call of the round has
\* been made.
MaxRounds == 2
PingPrios == {20, 40}
sema_test_helper == Workers[1]

InitPing == Boot(3 + 4 * MaxRounds, 1, FALSE) /\ ~thread_mlfqs

\* the test's caller changes its priority before the test
SelfTestSetPriority(t, p) ==
  /\ t = initial_thread
  /\ ops = 0
  /\ ThreadSetPriority(t, p)

\* sema_self_test: thread_create ("sema-test", PRI_DEFAULT, sema_test_helper, &sema)
SelfTestCreate(t) ==
  /\ t = initial_thread
  /\ status[sema_test_helper] = "NONE"
  /\ ThreadCreate(t, PRI_DEFAULT)

\* t is in the loop of its function, before round i
InLoop(t) ==
  /\ UserAt(t)
  /\ t \in {initial_thread, sema_test_helper}
  /\ status[sema_test_helper] /= "NONE"
  /\ Top(t).arg < MaxRounds

\* the first call of a round: sema_up (&sema[0]) in sema_self_test,
\* sema_down (&sema[0]) in sema_test_helper
PingFirst(t) ==
  /\ InLoop(t)
  /\ Top(t).arg2 = 0
  /\ LET stk == <<Fr("user", NULL, Top(t).arg, 1)>> IN
     IF t = initial_thread
     THEN Call("sema_up", t, PingSema[1], 0, "-") /\ sema_up(t, PingSema[1], stk)
     ELSE Call("sema_down", t, PingSema[1], 0, "-") /\ sema_down(t, PingSema[1], stk)
  /\ UNCHANGED <<thrVars, timeVars, lockVars, cfgVars>>

\* the second call of a round: sema_down (&sema[1]) in sema_self_test,
\* sema_up (&sema[1]) in sema_test_helper; then i++
PingSecond(t) ==
  /\ InLoop(t)
  /\ Top(t).arg2 = 1
  /\ LET stk == <<Fr("user", NULL, Top(t).arg + 1, 0)>> IN
     IF t = initial_thread
     THEN Call("sema_down", t, PingSema[2], 0, "-") /\ sema_down(t, PingSema[2], stk)
     ELSE Call("sema_up", t, PingSema[2], 0, "-") /\ sema_up(t, PingSema[2], stk)
  /\ UNCHANGED <<thrVars, timeVars, lockVars, cfgVars>>

\* sema_test_helper returns: kernel_thread calls thread_exit
PingHelperReturns(t) ==
  /\ t = sema_test_helper
  /\ UserAt(t)
  /\ Top(t).arg = MaxRounds
  /\ ThreadExit(t)

NextPing ==
  \/ \E t \in Threads, p \in PingPrios : SelfTestSetPriority(t, p)
  \/ \E t \in Threads : SelfTestCreate(t)
  \/ \E t \in Threads : AllocateTidLock(t)
  \/ \E t \in Threads : AllocateTidInc(t)
  \/ \E t \in Threads : AllocateTidUnlock(t)
  \/ \E t \in Threads : ThreadCreateUnblock(t)
  \/ \E t \in Threads : ThreadCreateRet(t)
  \/ \E t \in Threads : LockSetHolder(t)
  \/ \E t \in Threads : LockReleaseUp(t)
  \/ \E t \in Threads : PingFirst(t)
  \/ \E t \in Threads : PingSecond(t)
  \/ \E t \in Threads : PingHelperReturns(t)
  \/ \E t \in Threads : SemaDownResume(t)
  \/ \E t \in Threads : SemaUpResume(t)
  \/ Tick
  \/ IdleLoop

SpecPing == InitPing /\ [][NextPing]_vars

\* ---------------------------------------------------------------- claims
\* t has a frame of an operation on semaphore or lock x
InOp(t, x) == \E i \in 1..Len(stack[t]) : stack[t][i].obj = x
\* t is blocked in sema_down (x)
BlockedOn(t, x) ==
  /\ status[t] = "BLOCKED"
  /\ Len(stack[t]) > 0 /\ Top(t).pc = "sd_wait" /\ Top(t).obj = x
  /\ t \in Range(waiters[x])

\* C1: mutual exclusion. At most one thread is between a successful acquire
\* of a lock and the matching release, lock->holder is that thread, and
\* lock->holder is NULL when no thread is.
C1_MutualExclusion ==
  \A l \in Locks :
    /\ Cardinality({t \in Threads : l \in held[t]}) <= 1
    /\ \A t \in Threads : l \in held[t] => holder[l] = t
    /\ (\A t \in Threads : l \notin held[t]) => holder[l] = NULL

\* a thread owns L1 while another one is blocked in lock_acquire (L1)
C1_Witness ==
  \E t, u \in Threads : t /= u /\ "L1" \in held[t] /\ BlockedOn(u, "L1")

\* C4: semaphore counting. The value is never negative and equals the
\* initial value plus the completed ups minus the returned downs.
C4_SemaConservation ==
  \A s \in Semas :
    /\ value[s] >= 0
    /\ value[s] = sema_initial[s] + sema_ups[s] - sema_downs[s]

\* a sema_down that had to block has returned after a sema_up
C4_Witness ==
  \E s \in UserSemas, t \in Threads :
    /\ sema_ups[s] > 0 /\ sema_downs[s] > 0
    /\ t \in blocked_once /\ status[t] = "RUNNING" /\ t /= idle_thread

\* C6: priority-respecting wake. In strict-priority mode, while a thread
\* other than idle runs with interrupts enabled, no thread of the ready
\* list has a higher priority.
C6_PriorityRespected ==
  (~thread_mlfqs /\ ~panicked /\ running /= idle_thread /\ IntrOn)
    => \A a \in Range(ready_list) : priority[a] <= priority[running]

\* a creator preempted inside thread_create by the thread it created
C6_Witness ==
  /\ ~thread_mlfqs /\ running /= idle_thread /\ IntrOn
  /\ \E a \in Range(ready_list) :
       /\ priority[a] < priority[running]
       /\ Top(a).pc = "tc_ret" /\ Top(a).obj = running

\* the ready list is in descending priority, first come first among equals
ReadyListOrdered ==
  \A i, j \in 1..Len(ready_list) :
    i < j => \/ priority[ready_list[i]] > priority[ready_list[j]]
             \/ /\ priority[ready_list[i]] = priority[ready_list[j]]
                /\ enq_stamp[ready_list[i]] < enq_stamp[ready_list[j]]

\* a step that dispatches a thread taken from the ready list
DispatchStep ==
  /\ running' /= idle_thread
  /\ running' /= running \/ enq_stamp'[running] /= enq_stamp[running]

\* the thread dispatched outranks those left, or entered before its equals
DispatchedBest ==
  \A u \in Range(ready_list') :
    \/ priority'[u] < priority'[running']
    \/ /\ priority'[u] = priority'[running']
       /\ enq_stamp'[running'] < enq_stamp'[u]

\* C7: dispatch selection, in both scheduling modes. The ready list is in
\* descending priority with FIFO order among equals, every dispatch takes
\* the thread that is first in that order, and idle only runs when the
\* list is empty.
C7_DispatchSelection ==
  /\ []ReadyListOrdered
  /\ [][/\ DispatchStep => DispatchedBest
        /\ (running' = idle_thread /\ running /= idle_thread) => ready_list' = <<>>]_vars

\* two threads of equal priority wait in the ready list, in MLFQS mode
C7_Witness ==
  /\ thread_mlfqs
  /\ \E i, j \in 1..Len(ready_list) :
       i < j /\ priority[ready_list[i]] = priority[ready_list[j]]

\* C5 as claimed: in strict-priority mode, when thread_create is about to
\* return to a creator that created a thread of higher priority than its
\* own, the created thread has blocked or exited.
C5_AsClaimed ==
  \A c \in Threads :
    (~thread_mlfqs /\ At(c, "tc_ret") /\ Top(c).arg > priority[c])
      => Top(c).obj \in blocked_once

\* C5 amended: ... the created thread has blocked, exited, or lowered its
\* own priority to that of the creator or below.
C5_PreemptOnCreate ==
  \A c \in Threads :
    (~thread_mlfqs /\ At(c, "tc_ret") /\ Top(c).arg > priority[c])
      => \/ Top(c).obj \in blocked_once
         \/ priority[Top(c).obj] <= priority[c]

\* thread_create returns to the creator after the higher-priority thread
\* it created has run and blocked or exited
C5_Witness ==
  \E c \in Threads :
    /\ ~thread_mlfqs /\ At(c, "tc_ret") /\ Top(c).arg > priority[c]
    /\ Top(c).obj \in blocked_once
    /\ priority[Top(c).obj] > priority[c]

\* C3: a sema_up is never lost. No thread stays blocked in sema_down (s)
\* while s has a unit, once no other thread is inside an operation on s.
C3_NoLostSemaUp ==
  \A s \in UserSemas, w \in Threads :
    ~(BlockedOn(w, s) /\ value[s] > 0 /\ \A u \in Threads \ {w} : ~InOp(u, s))

\* C2: lock hand-off. No thread stays blocked in lock_acquire (l) while l
\* is free and no other thread is inside an operation on l.
C2_LockHandOff ==
  \A l \in UserLocks, w \in Threads :
    ~(/\ BlockedOn(w, l)
      /\ holder[l] = NULL /\ value[l] > 0
      /\ \A u \in Threads \ {w} : ~InOp(u, l) /\ l \notin held[u])

\* w goes to sleep in lock_acquire (l) in this step
BlocksOn(w, l) ==
  /\ running = w /\ status'[w] = "BLOCKED"
  /\ Len(stack'[w]) > 0
  /\ stack'[w][Len(stack'[w])] = Fr("sd_wait", l, 0, 0)

\* C8: single donation. In strict-priority mode, when a thread blocks in
\* lock_acquire on a lock whose holder has a lower priority, the holder's
\* priority becomes the waiter's, its base priority stays, and the holder,
\* if ready, is dispatched next.
C8_SingleDonation ==
  [][\A w \in Threads, l \in UserLocks :
       (/\ ~thread_mlfqs /\ BlocksOn(w, l)
        /\ holder[l] \in Threads /\ priority[holder[l]] < priority[w])
       => /\ priority'[holder[l]] = priority[w]
          /\ base_priority'[holder[l]] = base_priority[holder[l]]
          /\ status[holder[l]] = "READY" => running' = holder[l]]_vars

\* C9: nested donation. In strict-priority mode, when w is blocked on a
\* lock whose holder m is blocked on a lock held by lo, both m and lo have
\* at least w's priority.
C9_NestedDonation ==
  \A w, m, lo \in Threads, l1, l2 \in UserLocks :
    (/\ ~thread_mlfqs /\ l1 /= l2 /\ w /= m /\ m /= lo /\ w /= lo
     /\ BlockedOn(w, l2) /\ holder[l2] = m
     /\ BlockedOn(m, l1) /\ holder[l1] = lo)
    => priority[m] >= priority[w] /\ priority[lo] >= priority[w]

\* max (base priority, priorities of the threads blocked on locks t holds)
DonMax(t) ==
  Max({base_priority[t]} \cup
      {priority[d] : d \in {x \in Threads : \E l \in UserLocks :
                                   holder[l] = t /\ BlockedOn(x, l)}})

\* u has been given the way into lock l
Proceeding(u, l) ==
  /\ u \notin Range(waiters[l])
  /\ \/ holder[l] = u
     \/ Len(stack[u]) > 0 /\ Top(u).pc \in {"sd_wait", "la_set"} /\ Top(u).obj = l

\* lock_release (l) by t returns in this step
ReleaseCompletes(t, l) ==
  /\ ~thread_mlfqs /\ running = t /\ Len(stack[t]) > 0
  /\ Top(t).pc \in {"lr_up", "su_inc"} /\ Top(t).obj = l
  /\ stack'[t] = Pop(stack[t])

\* C10: donation unwind. In strict-priority mode, when lock_release
\* returns, the releaser's priority is the maximum of its base priority and
\* of the priorities of the threads still waiting on locks it holds (its
\* base priority when it holds none), and no waiter of the released lock
\* is left behind unless a waiter of at least its priority proceeds.
C10_DonationUnwind ==
  [][\A t \in Threads, l \in UserLocks :
       ReleaseCompletes(t, l)
       => /\ priority'[t] = DonMax(t)'
          /\ (held'[t] = {} => priority'[t] = base_priority'[t])
          /\ \A w \in Threads :
               BlockedOn(w, l)'
               => \E u \in Threads \ {w} :
                    priority'[u] >= priority'[w] /\ Proceeding(u, l)']_vars

\* sema_up (s) takes w out of the waiters and unblocks it in this step
SemaUpWakes(s, w) ==
  /\ w \in Range(waiters[s]) /\ w \notin Range(waiters'[s])
  /\ status[w] = "BLOCKED" /\ status'[w] /= "BLOCKED"

\* C11: sema_up wakes by priority. The thread a sema_up unblocks has the
\* highest priority of the threads that were waiting on the semaphore.
C11_SemaUpByPriority ==
  [][\A s \in Semas, w \in Threads :
       SemaUpWakes(s, w)
       => \A u \in Range(waiters[s]) : priority[u] <= priority[w]]_vars

\* cond_signal takes w out of cond->waiters in this step
CondSignals(c, w) ==
  w \in Range(cond_waiters[c]) /\ w \notin Range(cond_waiters'[c])

\* C12: cond_signal wakes by priority. The waiter a cond_signal pops has
\* the highest priority of the threads waiting on the condition.
C12_CondSignalByPriority ==
  [][\A c \in Conds, w \in Threads :
       CondSignals(c, w)
       => \A u \in Range(cond_waiters[c]) : priority[u] <= priority[w]]_vars

\* w is inside cond_wait (c, l), blocked on its own semaphore
CondWaiting(w, l) ==
  /\ BlockedOn(w, WaiterSema[w])
  /\ Len(stack[w]) > 1 /\ stack[w][Len(stack[w]) - 1] = Fr("cw_acq", l, 0, 0)

\* C13: cond_wait contract. A thread blocked in cond_wait does not hold the
\* lock, and a waiter that a cond_signal or cond_broadcast has selected does
\* not stay blocked on its own semaphore once the signaller is out of the
\* sema_up: from there no call can wake it.
C13_CondWaitContract ==
  \A w \in DOMAIN WaiterSema, l \in UserLocks :
    CondWaiting(w, l)
    => /\ holder[l] /= w
       /\ \/ \E c \in Conds : w \in Range(cond_waiters[c])
          \/ \E u \in Threads \ {w} : InOp(u, WaiterSema[w])

\* t calls timer_sleep in this step and goes on to thread_sleep_until
SleepCallStep(t) ==
  /\ running = t /\ Len(stack'[t]) = Len(stack[t]) + 1
  /\ stack'[t][Len(stack'[t])].pc = "ts_until"
\* t puts itself in the sleep list in this step
FallsAsleep(t) == t \notin Range(sleep_list) /\ t \in Range(sleep_list')
\* t leaves the sleep list in this step
WakesUp(t) == t \in Range(sleep_list) /\ t \notin Range(sleep_list')

\* C14: no early wake-up. A thread that calls timer_sleep (n), n > 0, at
\* tick t0 goes to sleep with wakeup_tick = t0 + n, stays Blocked while it
\* is in the sleep list, and leaves the list only when ticks >= t0 + n.
C14_NoEarlyWakeup ==
  /\ [](\A t \in Range(sleep_list) : status[t] = "BLOCKED")
  /\ [][\A t \in Threads :
          /\ SleepCallStep(t)
             => /\ last_call'.arg > 0
                /\ stack'[t][Len(stack'[t])].arg = ticks + last_call'.arg
          /\ FallsAsleep(t) => /\ wakeup_tick'[t] = Top(t).arg
                               /\ status'[t] = "BLOCKED"
          /\ WakesUp(t) => ticks' >= wakeup_tick[t]
          /\ t \in Range(sleep_list) => wakeup_tick'[t] = wakeup_tick[t]]_vars

\* a sleeper has been woken and runs again while another one still sleeps
C14_Witness ==
  \E t, u \in Threads :
    /\ wakeup_tick[t] > 0 /\ t \notin Range(sleep_list)
    /\ status[t] = "RUNNING" /\ Top(t).pc = "user"
    /\ u \in Range(sleep_list) /\ wakeup_tick[u] > ticks

\* t is Ready or Running, and on the ready list at most once
UnblockedOnce(t) ==
  \/ running' = t /\ status'[t] = "RUNNING" /\ t \notin Range(ready_list')
  \/ /\ status'[t] = "READY" /\ running' /= t
     /\ Cardinality({i \in 1..Len(ready_list') : ready_list'[i] = t}) = 1

\* C15: every sleeper is woken on time. After the timer interrupt of tick T
\* no thread is left in the sleep list with wakeup_tick <= T, each thread
\* taken from the list was Blocked and is unblocked once, and a sleeper
\* is eventually taken from the list when the run still has a tick to come
\* and reaches the sleeper's tick.
C15_WokenOnTime ==
  /\ [][ticks' /= ticks
        => /\ \A t \in Range(sleep_list') : wakeup_tick'[t] > ticks'
           /\ \A t \in Threads :
                WakesUp(t) => status[t] = "BLOCKED" /\ UnblockedOnce(t)]_vars
  /\ \A t \in Threads :
       (t \in Range(sleep_list) /\ wakeup_tick[t] <= MaxTicks /\ ticks < MaxTicks)
         ~> (t \notin Range(sleep_list))

\* t1 went to sleep until tick 2, then main until tick 1, and both have
\* been woken
C15_Witness ==
  /\ wakeup_tick["t1"] = 2 /\ wakeup_tick[initial_thread] = 1
  /\ sleep_list = <<>> /\ ticks >= 2
  /\ \A t \in {initial_thread, "t1"} : status[t] \in {"READY", "RUNNING"}

\* C16: timer_sleep (n) with n <= 0 returns at once. The call leaves the
\* sleep list, the ready list, every wakeup_tick, every thread's status and
\* position and the running thread as they were.
C16_SleepNothing ==
  [][\A t \in Threads, n \in TimerSleepArgs :
       (n <= 0 /\ TimerSleep(t, n))
       => UNCHANGED <<sleep_list, ready_list, wakeup_tick, status, stack, running,
                      thread_ticks>>]_vars

\* timer_sleep (0) has returned while another thread sleeps
C16_Witness ==
  /\ last_call.f = "timer_sleep" /\ last_call.arg = 0
  /\ At(last_call.t, "user")
  /\ sleep_list /= <<>>

\* the test makes the call recorded in last_call' in this step
CallStep(f) == ops' = ops + 1 /\ last_call'.f = f

\* nothing is blocked, woken or dispatched in this step
NoDispatch ==
  UNCHANGED <<status, running, ready_list, thread_ticks, sleep_list, blocked_once>>

\* C17: the try variants never suspend. sema_try_down returns true and
\* takes one unit iff the value is positive, else returns false and leaves
\* value and waiters alone; lock_try_acquire on a lock held by another
\* thread returns false and leaves the holder and the semaphore alone;
\* neither blocks the caller or dispatches a thread.
C17_TryNeverSuspends ==
  [][/\ CallStep("sema_try_down")
        => LET s == last_call'.obj IN
           /\ last_call'.ret = IF value[s] > 0 THEN "true" ELSE "false"
           /\ value' = IF value[s] > 0 THEN [value EXCEPT ![s] = @ - 1] ELSE value
           /\ UNCHANGED <<waiters, holder, stack>>
           /\ NoDispatch
     /\ CallStep("lock_try_acquire")
        => LET l == last_call'.obj IN
           /\ (holder[l] \in Threads \ {running})
              => /\ last_call'.ret = "false"
                 /\ UNCHANGED <<holder, value, waiters, stack>>
           /\ last_call'.ret = "true" => value'[l] = value[l] - 1
           /\ NoDispatch]_vars

\* lock_try_acquire has returned false: another thread holds the lock
C17_Witness ==
  /\ last_call.f = "lock_try_acquire" /\ last_call.ret = "false"
  /\ At(last_call.t, "user")
  /\ holder[last_call.obj] \in Threads \ {last_call.t}

\* the call recorded in c breaks the rule of the holder
LockMisuse(c) ==
  /\ c.f \in LockCalls
  /\ (holder[c.obj] = c.t) /= (c.f = "lock_release")

\* C18: lock misuse is fatal. lock_release by a thread that is not the
\* holder, and lock_acquire or lock_try_acquire by the holder, fail their
\* assertion with the lock's holder, value and waiters unchanged, and
\* nothing runs after the failure.
C18_LockMisuseFatal ==
  [][/\ (ops' = ops + 1 /\ LockMisuse(last_call'))
        => /\ panicked'
           /\ UNCHANGED <<holder, value, waiters, stack>>
           /\ NoDispatch
     /\ ~panicked]_vars

\* lock_acquire by the holder has ended in the assertion failure
C18_Witness ==
  /\ panicked
  /\ last_call.f = "lock_acquire" /\ holder[last_call.obj] = last_call.t

\* C19: allocation failure in thread_create. The call returns TID_ERROR
\* without consuming a tid, adding a thread to the ready list or to the
\* all-threads list, or dispatching.
C19_CreateFailure ==
  [][(CallStep("thread_create") /\ last_call'.ret = "TID_ERROR")
     => /\ UNCHANGED <<next_tid, tid, all_threads, stack, priority, holder, value,
                       waiters>>
        /\ NoDispatch]_vars

\* thread_create has returned TID_ERROR after an earlier call created a thread
C19_Witness ==
  /\ last_call.f = "thread_create" /\ last_call.ret = "TID_ERROR"
  /\ At(last_call.t, "user")
  /\ next_tid > 3 /\ \E w \in WorkerSet : status[w] = "READY"

\* the frames of thread_create that carry a tid out of allocate_tid
TidFrames ==
  UNION {{<<t, i>> : i \in {j \in 1..Len(stack[t]) :
                            stack[t][j].pc \in {"tc_rel", "tc_unblock", "tc_ret"}}} :
         t \in Threads}
\* the tid values handed out so far, with the place each one is kept in
TidsOut ==
  {<<tid[t], t>> : t \in {u \in Threads : tid[u] /= 0}}
    \cup {<<stack[x[1]][x[2]].arg2, stack[x[1]][x[2]].obj>> : x \in TidFrames}

\* C20: tid values are unique and increasing. No two threads have the same
\* tid, a tid still on its way out of allocate_tid is the tid of no other
\* thread, every tid handed out is below next_tid, and each allocation
\* returns next_tid and moves it up by one.
C20_TidUnique ==
  /\ [](\A a, b \in TidsOut : a[1] = b[1] => a[2] = b[2])
  /\ [](\A a \in TidsOut : a[1] < next_tid)
  /\ [][next_tid' /= next_tid
        => /\ next_tid' = next_tid + 1
           /\ Top(running)' = Fr("tc_rel", Top(running).obj, Top(running).arg, next_tid)]_vars

\* a thread is blocked on tid_lock while the holder, preempted inside
\* allocate_tid, has taken its tid and not yet released the lock
C20_Witness ==
  \E a, b \in Threads :
    /\ a /= b /\ BlockedOn(b, tid_lock)
    /\ holder[tid_lock] = a /\ Len(stack[a]) > 0 /\ Top(a).pc = "tc_rel"

\* ---------------------------------------------------------------- C21
\* C21: in MLFQS mode thread_set_priority changes nothing: no thread's
\* priority or base priority, not the ready queue, not the running thread,
\* and the caller does not yield; in strict-priority mode thread_set_nice
\* changes no thread's nice value or priority and not the ready queue.
C21_WrongModeNoOp ==
  [][/\ (CallStep("thread_set_priority") /\ thread_mlfqs)
        => /\ UNCHANGED <<priority, base_priority, donations, ready_list, running,
                          status, thread_ticks, stack>>
           /\ NoDispatch
     /\ (CallStep("thread_set_nice") /\ ~thread_mlfqs)
        => /\ UNCHANGED <<nice, priority, base_priority, recent_cpu, ready_list,
                          running, status, stack>>
           /\ NoDispatch]_vars

\* thread_set_priority was called in MLFQS mode with a value below the
\* caller's priority while a thread was ready
C21_Witness ==
  /\ thread_mlfqs
  /\ last_call.f = "thread_set_priority"
  /\ last_call.t = running
  /\ last_call.arg < priority[running]
  /\ ready_list /= <<>>

\* ---------------------------------------------------------------- C22
\* C22: mlfqs_calculate_priority gives a thread the priority
\* PRI_MAX - trunc(recent_cpu / 4) - 2 * nice clamped to PRI_MIN..PRI_MAX,
\* where recent_cpu is a 17.14 fixed-point number and trunc cuts toward
\* zero, for a negative recent_cpu too; the idle thread's priority is left
\* as it was.
C22_PriorityFormula ==
  [][CallStep("mlfqs_update_all_priorities")
     => \A t \in Threads :
          LET size == IF recent_cpu[t] >= 0 THEN recent_cpu[t] ELSE -recent_cpu[t]
              whole == size \div (4 * F)
              quarter == IF recent_cpu[t] >= 0 THEN whole ELSE -whole
              raw == PRI_MAX - quarter - 2 * nice[t]
          IN priority'[t] =
               IF t = idle_thread \/ t \notin Range(all_threads) THEN priority[t]
               ELSE IF raw < PRI_MIN THEN PRI_MIN
               ELSE IF raw > PRI_MAX THEN PRI_MAX
               ELSE raw]_vars

\* the priorities were recomputed for a thread whose recent_cpu is negative
\* and not a whole multiple of 4, and whose priority is inside the range
C22_Witness ==
  /\ last_call.f = "mlfqs_update_all_priorities"
  /\ \E t \in Range(all_threads) \ {idle_thread} :
        /\ recent_cpu[t] < 0
        /\ recent_cpu[t] % (4 * F) /= 0
        /\ priority[t] > PRI_MIN
        /\ priority[t] < PRI_MAX
  /\ nice[idle_thread] /= 0

\* ---------------------------------------------------------------- C25
\* C25: mlfqs_update_load_avg sets load_avg to (59/60) * load_avg +
\* (1/60) * ready_count in 17.14 fixed point, where ready_count is the size
\* of the ready list plus one when the running thread is not the idle
\* thread; from a load_avg that is not negative the result is not negative
\* and is at most the larger of the old load_avg and ready_count, both as
\* fixed-point values, and it never lies above the exact weighted mean.
C25_LoadAvgUpdate ==
  [][CallStep("mlfqs_update_load_avg")
     => LET ready_count == Len(ready_list) + IF running /= idle_thread THEN 1 ELSE 0
            fifty_nine_sixtieths == (59 * F) \div 60
            one_sixtieth == F \div 60
            mix == (fifty_nine_sixtieths * load_avg) \div F + one_sixtieth * ready_count
            top == IF load_avg > ready_count * F THEN load_avg ELSE ready_count * F
        IN /\ load_avg' = mix
           /\ load_avg >= 0
              => /\ load_avg' >= 0
                 /\ load_avg' <= top
                 /\ 60 * load_avg' <= 59 * load_avg + ready_count * F]_vars

\* load_avg was updated while one thread ran and another was ready, and
\* moved away from a positive value
C25_Witness ==
  /\ last_call.f = "mlfqs_update_load_avg"
  /\ last_call.arg = 2
  /\ ready_list /= <<>>
  /\ load_avg > 0
  /\ load_avg \notin LoadAvgInputs

\* ---------------------------------------------------------------- C23
\* a timer interrupt is handled
TickStep == ticks' = ticks + 1

\* C23: in MLFQS mode every timer tick taken while a thread other than the
\* idle thread is running adds exactly 1.0 (2^14 raw) to that thread's
\* recent_cpu, and a tick taken while the idle thread is running changes no
\* thread's recent_cpu.
C23_TickChargesRunning ==
  [][(thread_mlfqs /\ TickStep)
     => recent_cpu' = IF running /= idle_thread
                      THEN [recent_cpu EXCEPT ![running] = @ + F]
                      ELSE recent_cpu]_vars

\* ---------------------------------------------------------------- C24
\* C24: in MLFQS mode the tick handler updates load_avg on every
\* TIMER_FREQ-th tick, from the threads that are ready or running at that
\* tick, and on every 4th tick leaves every thread but the idle one with
\* the priority the formula gives for the recent_cpu and nice it has after
\* the increment and the per-second update of the same tick.
C24_TickCadences ==
  [][(thread_mlfqs /\ TickStep)
     => /\ ticks' % TIMER_FREQ = 0
           => load_avg' = mlfqs_update_load_avg(load_avg, ready_threads)
        /\ ticks' % TIME_SLICE = 0
           => \A t \in Range(all_threads) \ {idle_thread} :
                priority'[t] = mlfqs_calculate_priority(recent_cpu'[t], nice'[t])]_vars

\* ---------------------------------------------------------------- C26
\* C26: in MLFQS mode thread_set_nice (n) stores n as the caller's nice,
\* gives the caller at once the priority the formula yields for its
\* recent_cpu and n, and the caller yields if and only if some thread in
\* the ready queue then has a strictly higher priority; no other thread's
\* nice or priority changes.
C26_SetNice ==
  [][(CallStep("thread_set_nice") /\ thread_mlfqs)
     => LET t == running
            n == last_call'.arg
            size == IF recent_cpu[t] >= 0 THEN recent_cpu[t] ELSE -recent_cpu[t]
            quarter == IF recent_cpu[t] >= 0 THEN size \div (4 * F)
                       ELSE -(size \div (4 * F))
            raw == PRI_MAX - quarter - 2 * n
            np == IF raw < PRI_MIN THEN PRI_MIN ELSE IF raw > PRI_MAX THEN PRI_MAX ELSE raw
            outranked == \E u \in Range(ready_list) : priority[u] > np
        IN /\ nice' = [nice EXCEPT ![t] = n]
           /\ priority' = [priority EXCEPT ![t] = np]
           /\ IF outranked
              THEN /\ running' /= t
                   /\ status'[t] = "READY"
                   /\ t \in Range(ready_list')
                   /\ \A u \in Range(ready_list) : priority[running'] >= priority[u]
              ELSE NoDispatch /\ UNCHANGED ready_list]_vars

\* thread_set_nice lowered the caller below a ready thread and the caller
\* yielded to it
C26_Witness ==
  /\ thread_mlfqs
  /\ last_call.f = "thread_set_nice"
  /\ last_call.t /= running
  /\ last_call.t \in Range(ready_list)
  /\ nice[last_call.t] = last_call.arg
  /\ priority[running] > priority[last_call.t]

\* ---------------------------------------------------------------- C27
\* C27: the semaphore ping-pong completes whatever the priorities of the
\* two threads and whenever the timer preempts: the two threads are never
\* both blocked in sema_down, which would end the exchange, and the rounds
\* alternate, each semaphore being downed once for each up and sema[0]
\* upped again only after sema[1] was downed.
C27_PingPongCompletes ==
  /\ ~(/\ BlockedOn(initial_thread, PingSema[2])
       /\ BlockedOn(sema_test_helper, PingSema[1]))
  /\ \A i \in 1..2 : sema_ups[PingSema[i]] - sema_downs[PingSema[i]] \in {0, 1}
  /\ sema_ups[PingSema[1]] - sema_downs[PingSema[2]] \in {0, 1}

\* ---------------------------------------------------------------- C28
\* C28: at every point between two scheduler operations exactly one thread
\* has status Running, and it is the thread the CPU runs; this holds when
\* the ready queue is empty and the idle thread has been dispatched.
C28_OneRunning ==
  /\ Cardinality({t \in Threads : status[t] = "RUNNING"}) = 1
  /\ status[running] = "RUNNING"

\* the idle thread was dispatched because every other thread sleeps, waits
\* or has exited
C28_Witness ==
  /\ running = idle_thread
  /\ ready_list = <<>>
  /\ sleep_list /= <<>>
  /\ \E t \in WorkerSet : status[t] = "BLOCKED" /\ tid[t] /= 0

\* ---------------------------------------------------------------- C29
\* occurrences of t in a list
Occurrences(l, t) == Cardinality({i \in 1..Len(l) : l[i] = t})

\* C29: at every point between two scheduler operations every thread with
\* status Ready is in the ready queue exactly once and every thread in the
\* ready queue has status Ready, the idle thread included, also after a
\* yield forced on it by the timer.
C29_ReadyIffQueued ==
  \A t \in Threads :
    /\ status[t] = "READY" => Occurrences(ready_list, t) = 1
    /\ Occurrences(ready_list, t) > 0 => status[t] = "READY"

\* ---------------------------------------------------------------- C30
\* the list positions that hold t's elem
ElemSlots(t) ==
  {<<"ready_list", i>> : i \in {j \in 1..Len(ready_list) : ready_list[j] = t}}
  \cup {<<"sleep_list", i>> : i \in {j \in 1..Len(sleep_list) : sleep_list[j] = t}}
  \cup {<<"destruction_req", i>> :
           i \in {j \in 1..Len(destruction_req) : destruction_req[j] = t}}
  \cup UNION {{<<s, i>> : i \in {j \in 1..Len(waiters[s]) : waiters[s][j] = t}} :
               s \in Semas}

\* t sleeps: blocked by thread_sleep_until, back in the code that called
\* timer_sleep once it is woken
Sleeping(t) ==
  /\ status[t] = "BLOCKED"
  /\ t /= idle_thread
  /\ tid[t] /= 0
  /\ Len(stack[t]) > 0
  /\ Top(t).pc = "user"

\* C30: a thread's elem is in at most one of the ready queue, the sleep
\* list, the waiters of some semaphore and the destruction list, and at
\* most once there; a Blocked thread that waits on a semaphore is in that
\* semaphore's waiters and nowhere else, a sleeping thread in the sleep list
\* and nowhere else, a waiter that was woken and blocked again included.
C30_OneListAtMost ==
  \A t \in Threads :
    /\ Cardinality(ElemSlots(t)) <= 1
    /\ (status[t] = "BLOCKED" /\ Len(stack[t]) > 0 /\ Top(t).pc = "sd_wait")
       => /\ Occurrences(waiters[Top(t).obj], t) = 1
          /\ Cardinality(ElemSlots(t)) = 1
    /\ Sleeping(t)
       => /\ Occurrences(sleep_list, t) = 1
          /\ Cardinality(ElemSlots(t)) = 1

\* a waiter was woken by sema_up, found the value still zero and blocked
\* again: it waits although the semaphore now has a unit, while another
\* thread sleeps
C30_Witness ==
  /\ \E t \in Threads, s \in Semas : BlockedOn(t, s) /\ value[s] > 0
  /\ \E u \in Threads : Sleeping(u)

\* ---------------------------------------------------------------- C31
\* C31: in strict-priority mode the effective priority of every thread is
\* the maximum of its base priority and the effective priorities of its
\* donors, the threads blocked in lock_acquire on a lock it holds; after
\* thread_set_priority the base priority is the new value and the
\* effective priority follows the same rule.
C31_EffectivePriority ==
  ~thread_mlfqs
  => \A t \in Threads :
       tid[t] /= 0 /\ status[t] \notin {"DYING", "FREED"}
       => priority[t] = DonMax(t)


\* ---------------------------------------------------------------- C32
\* struct thread's waiting_for_lock: init_thread sets it to NULL and no
\* other code writes it
waiting_for_lock == [t \in Threads |-> NULL]

\* C32: while a thread is blocked in lock_acquire (L) its waiting_for_lock
\* is L, it is in L's waiters and in the donations of L's holder and of no
\* other thread; a thread that is not blocked in lock_acquire has
\* waiting_for_lock NULL and is in no donations list.
C32_DonorBookkeeping ==
  \A t \in Threads :
    /\ \A l \in UserLocks :
         (~thread_mlfqs /\ BlockedOn(t, l) /\ holder[l] \in Threads)
         => /\ waiting_for_lock[t] = l
            /\ t \in Range(waiters[l])
            /\ \A h \in Threads : t \in Range(donations[h]) <=> h = holder[l]
    /\ (~ \E l \in Locks : BlockedOn(t, l))
       => /\ waiting_for_lock[t] = NULL
          /\ \A h \in Threads : t \notin Range(donations[h])


\* ---------------------------------------------------------------- C33
\* the range scenario: in either mode, threads that set priorities at and
\* just outside the ends of the range, set nice values, create threads,
\* yield and exit
MaxRangeOps == 3
RangePrios == {PRI_MIN - 1, PRI_MIN, PRI_MAX, PRI_MAX + 1}

InitRange == Boot(MaxRangeOps, 1, FALSE)

NextRange ==
  \/ \E t \in Threads, p \in RangePrios : ThreadSetPriority(t, p)
  \/ \E t \in Threads, n \in NiceInputs : ThreadSetNice(t, n)
  \/ \E t \in Threads : ThreadCreate(t, PRI_DEFAULT)
  \/ \E t \in Threads : AllocateTidLock(t)
  \/ \E t \in Threads : AllocateTidInc(t)
  \/ \E t \in Threads : AllocateTidUnlock(t)
  \/ \E t \in Threads : ThreadCreateUnblock(t)
  \/ \E t \in Threads : ThreadCreateRet(t)
  \/ \E t \in Threads : LockSetHolder(t)
  \/ \E t \in Threads : LockReleaseUp(t)
  \/ \E t \in Threads : ThreadYield(t)
  \/ \E t \in Threads : ThreadExit(t)

SpecRange == InitRange /\ [][NextRange]_vars

\* C33: the effective priority of every thread is within PRI_MIN..PRI_MAX
\* in every reachable state, whatever thread_create, thread_set_priority,
\* thread_set_nice, lock operations and MLFQS recomputations came before.
C33_PriorityInRange ==
  \A t \in Threads : PRI_MIN <= priority[t] /\ priority[t] <= PRI_MAX


\* ---------------------------------------------------------------- C34
\* position of t in list l (t is in l)
IndexOf(l, t) == CHOOSE i \in 1..Len(l) : l[i] = t

\* C34: the sleep list is in ascending order of wakeup_tick in every
\* reachable state; a thread that enters the list goes behind the sleepers
\* with the same wakeup_tick, and the sleepers that stay keep their order,
\* so that equal wakeup_ticks stand in order of insertion.
C34_SleepListOrdered ==
  /\ [](\A i, j \in 1..Len(sleep_list) :
          i < j => wakeup_tick[sleep_list[i]] <= wakeup_tick[sleep_list[j]])
  /\ [][\A t, u \in Range(sleep_list') :
          /\ (/\ t \notin Range(sleep_list) /\ u \in Range(sleep_list)
              /\ wakeup_tick'[u] = wakeup_tick'[t])
             => IndexOf(sleep_list', u) < IndexOf(sleep_list', t)
          /\ (/\ t \in Range(sleep_list) /\ u \in Range(sleep_list)
              /\ IndexOf(sleep_list, u) < IndexOf(sleep_list, t))
             => IndexOf(sleep_list', u) < IndexOf(sleep_list', t)]_vars

\* three sleepers, the first two with the same wakeup_tick and the third
\* with a later one, inserted after the timer has started to tick
C34_Witness ==
  /\ Len(sleep_list) = 3
  /\ wakeup_tick[sleep_list[1]] = wakeup_tick[sleep_list[2]]
  /\ wakeup_tick[sleep_list[2]] < wakeup_tick[sleep_list[3]]
  /\ ticks > 0


\* ---------------------------------------------------------------- C35
Dead(t) == status[t] \in {"DYING", "FREED"}

\* the page of t is handed to palloc_free_page in this step
PageReleased(t) == status[t] /= "FREED" /\ status'[t] = "FREED"

\* C35: a thread with status Dying is never dispatched again and never goes
\* on after thread_exit; its page is released once, by the do_schedule of
\* a later dispatch made while another thread is running; the page of the
\* initial thread is never released.
C35_TeardownSafety ==
  /\ [](\A t \in Threads :
          /\ Dead(t)
             => /\ running /= t
                /\ stack[t] = <<>>
                /\ t \notin Range(ready_list)
          /\ status[t] = "DYING"
             => Occurrences(destruction_req, t) =
                  IF t = initial_thread THEN 0 ELSE 1
          /\ status[t] = "FREED" => t \notin Range(destruction_req)
          /\ t \in Range(destruction_req) => status[t] = "DYING")
  /\ [](status[initial_thread] /= "FREED")
  /\ [][\A t \in Threads :
          /\ Dead(t) => Dead(t)' /\ running' /= t
          /\ status[t] = "FREED" => status'[t] = "FREED"
          /\ PageReleased(t)
             => /\ status[t] = "DYING"
                /\ running /= t
                /\ t \in Range(destruction_req)
                /\ thread_ticks' = 0
                /\ status'[running] /= "RUNNING" \/ running' = running]_vars

\* a thread has exited and a later do_schedule has released its page; the
\* initial thread has exited too, is Dying and keeps its page
C35_Witness ==
  /\ \E t \in WorkerSet : status[t] = "FREED"
  /\ status[initial_thread] = "DYING"
  /\ destruction_req = <<>>


\* ---------------------------------------------------------------- C37
\* a sleeper woken by this tick makes the handler ask for a yield
WakePreempts ==
  \E w \in Range(sleep_list) :
    w \notin Range(sleep_list') /\ UnblockPreempts(w, priority)

\* the running thread went through thread_yield on the way out of the
\* handler: it is back in the ready list, or dispatched again at once
YieldedOnReturn ==
  /\ thread_ticks' = 0
  /\ running /= idle_thread => enq_stamp'[running] /= enq_stamp[running]
  /\ running = idle_thread => status'[idle_thread] \in {"READY", "RUNNING"}

\* C37: time-slice preemption. Every dispatch sets thread_ticks to 0 and
\* every timer tick adds one; on the tick that brings it to TIME_SLICE the
\* handler asks for a yield, taken when the handler returns, so that no
\* thread runs through more than TIME_SLICE ticks in a row, and on an
\* earlier tick the counter asks for none.
C37_TimeSlice ==
  /\ [](thread_ticks < TIME_SLICE)
  /\ [][/\ running' /= running => thread_ticks' = 0
        /\ (TickStep /\ thread_ticks + 1 >= TIME_SLICE) => YieldedOnReturn
        /\ (TickStep /\ thread_ticks + 1 < TIME_SLICE /\ ~WakePreempts)
           => /\ thread_ticks' = thread_ticks + 1
              /\ running' = running
              /\ status'[running] = "RUNNING"
              /\ enq_stamp'[running] = enq_stamp[running]]_vars

\* the initial thread ran through TIME_SLICE ticks without calling
\* anything: the last one made it yield, and with nobody else ready it was
\* dispatched again with a fresh slice
C37_Witness ==
  /\ ticks = TIME_SLICE
  /\ ops = 0
  /\ running = initial_thread
  /\ thread_ticks = 0
  /\ enq_stamp[initial_thread] > 0


\* ---------------------------------------------------------------- C36
\* the boot scenario: thread_init has run, the initial thread is about to
\* call thread_start with interrupts still disabled, and goes on with a
\* short test once thread_start has returned
MaxStartOps == 3
StartPrios == {20, 40}
StartSleepArgs == {1}

InitStart ==
  /\ thread_mlfqs \in BOOLEAN
  /\ status = [t \in Threads |-> IF t = initial_thread THEN "RUNNING" ELSE "NONE"]
  /\ priority = [t \in Threads |->
        IF t /= initial_thread THEN 0
        ELSE IF thread_mlfqs THEN mlfqs_calculate_priority(0, 0) ELSE PRI_DEFAULT]
  /\ base_priority = [t \in Threads |->
        IF t = initial_thread /\ ~thread_mlfqs THEN PRI_DEFAULT ELSE 0]
  /\ donations = [t \in Threads |-> <<>>]
  /\ nice = [t \in Threads |-> 0]
  /\ recent_cpu = [t \in Threads |-> 0]
  /\ tid = [t \in Threads |-> IF t = initial_thread THEN 1 ELSE 0]
  /\ wakeup_tick = [t \in Threads |-> 0]
  /\ stack = [t \in Threads |->
        IF t = initial_thread
        THEN <<UserFrame, Fr("ts_create", idle_started, 0, 0)>> ELSE <<>>]
  /\ running = initial_thread
  /\ ready_list = <<>>
  /\ sleep_list = <<>>
  /\ destruction_req = <<>>
  /\ all_threads = IF thread_mlfqs THEN <<initial_thread>> ELSE <<>>
  /\ thread_ticks = 0
  /\ ticks = 0
  /\ last_tick = MaxTicks
  /\ next_tid = 2
  /\ load_avg = 0
  /\ value = [s \in Semas |-> IF s \in Locks THEN 1 ELSE 0]
  /\ sema_initial = value
  /\ waiters = [s \in Semas |-> <<>>]
  /\ holder = [l \in Locks |-> NULL]
  /\ cond_waiters = [c \in Conds |-> <<>>]
  /\ panicked = FALSE
  /\ pages = 1
  /\ budget = MaxStartOps
  /\ tracing = TRUE
  /\ ops = 0
  /\ last_call = [f |-> "none", t |-> NULL, obj |-> NULL, arg |-> 0, ret |-> "-"]
  /\ isr_log = <<>>
  /\ write_level = "INTR_OFF"
  /\ intr_level = "INTR_OFF"
  /\ old_level = [t \in Threads |-> <<>>]
  /\ held = [t \in Threads |-> {}]
  /\ enq_stamp = [t \in Threads |-> 0]
  /\ sema_ups = [s \in Semas |-> 0]
  /\ sema_downs = [s \in Semas |-> 0]
  /\ blocked_once = {}

\* thread_start, interrupts disabled: sema_init (&idle_started, 0) and
\* thread_create ("idle", PRI_MIN, idle, &idle_started) up to its
\* thread_unblock; allocate_tid takes and releases tid_lock without waiting
ThreadStartCreate ==
  /\ At(initial_thread, "ts_create")
  /\ LET h == idle_thread IN
     /\ status' = [status EXCEPT ![h] = "BLOCKED"]
     /\ IF thread_mlfqs
        THEN /\ nice' = [nice EXCEPT ![h] = nice[running]]
             /\ recent_cpu' = [recent_cpu EXCEPT ![h] = recent_cpu[running]]
             /\ all_threads' = Append(all_threads, h)
             /\ priority' = [priority EXCEPT
                  ![h] = mlfqs_calculate_priority(recent_cpu[running], nice[running])]
             /\ base_priority' = [base_priority EXCEPT ![h] = 0]
        ELSE /\ priority' = [priority EXCEPT ![h] = PRI_MIN]
             /\ base_priority' = [base_priority EXCEPT ![h] = PRI_MIN]
             /\ nice' = [nice EXCEPT ![h] = 0]
             /\ recent_cpu' = [recent_cpu EXCEPT ![h] = 0]
             /\ UNCHANGED all_threads
     /\ tid' = [tid EXCEPT ![h] = next_tid]
     /\ next_tid' = NextTidAfter(next_tid)
     /\ sema_downs' = [sema_downs EXCEPT ![tid_lock] = @ + 1]
     /\ sema_ups' = [sema_ups EXCEPT ![tid_lock] = @ + 1]
     /\ stack' = [stack EXCEPT
                    ![running] = Append(Pop(@), Fr("ts_unblock", idle_started, 0, 0)),
                    ![h] = <<Fr("idle_entry", idle_started, 0, 0)>>]
  /\ UNCHANGED <<donations, wakeup_tick, timeVars, lockVars, value, waiters,
                 thread_mlfqs, load_avg, sema_initial, panicked, pages, budget,
                 last_tick, tracing, ops, last_call, ready_list, enq_stamp, running,
                 thread_ticks, destruction_req, blocked_once>>
  /\ NoScope

\* thread_start: the thread_unblock that ends thread_create
ThreadStartUnblock ==
  /\ At(initial_thread, "ts_unblock")
  /\ thread_unblock(idle_thread, status, Rq, priority)
  /\ SetStack(running, Append(Pop(stack[running]), Fr("ts_enable", idle_started, 0, 0)))
  /\ UNCHANGED <<thrVars, timeVars, lockVars, semVars, cfgVars, ops, last_call>>
  /\ IF UnblockPreempts(idle_thread, priority)
     THEN Switch(Scope(Scope(old_level[running], intr_level), intr_disable))
     ELSE Scoped(running)

\* thread_start: intr_enable ()
ThreadStartEnable ==
  /\ At(initial_thread, "ts_enable")
  /\ SetStack(running, Append(Pop(stack[running]), Fr("ts_down", idle_started, 0, 0)))
  /\ intr_level' = intr_enable
  /\ UNCHANGED old_level
  /\ WritesAt(intr_level)
  /\ UNCHANGED <<thrVars, timeVars, lockVars, semVars, cfgVars, schedVars, ops,
                 last_call>>

\* thread_start: sema_down (&idle_started), interrupts enabled
ThreadStartDown ==
  /\ At(initial_thread, "ts_down")
  /\ sema_down(running, idle_started, Pop(stack[running]))
  /\ UNCHANGED <<thrVars, timeVars, lockVars, cfgVars, ops, last_call>>

\* idle, entered from kernel_thread with interrupts enabled:
\* idle_thread = thread_current ()
IdleEntry ==
  /\ ~panicked
  /\ running = idle_thread
  /\ Top(idle_thread).pc = "idle_entry"
  /\ SetStack(idle_thread, <<Fr("idle_start", idle_started, 0, 0)>>)
  /\ UNCHANGED <<thrVars, timeVars, lockVars, semVars, cfgVars, schedVars, ops,
                 last_call>>
  /\ NoScope

\* idle: sema_up (idle_started), then on to the loop
IdleStart ==
  /\ ~panicked
  /\ running = idle_thread
  /\ Top(idle_thread).pc = "idle_start"
  /\ sema_up(idle_thread, idle_started, <<Fr("idle_loop", NULL, 0, 0)>>)
  /\ UNCHANGED <<thrVars, timeVars, lockVars, cfgVars, ops, last_call>>

NextStart ==
  \/ ThreadStartCreate
  \/ ThreadStartUnblock
  \/ ThreadStartEnable
  \/ ThreadStartDown
  \/ IdleEntry
  \/ IdleStart
  \/ IdleLoop
  \/ Tick
  \/ \E t \in Threads : SemaDownResume(t)
  \/ \E t \in Threads, p \in StartPrios : ThreadCreate(t, p)
  \/ \E t \in Threads : AllocateTidLock(t)
  \/ \E t \in Threads : AllocateTidInc(t)
  \/ \E t \in Threads : AllocateTidUnlock(t)
  \/ \E t \in Threads : ThreadCreateUnblock(t)
  \/ \E t \in Threads : ThreadCreateRet(t)
  \/ \E t \in Threads : LockSetHolder(t)
  \/ \E t \in Threads : LockReleaseUp(t)
  \/ \E t \in Threads : ThreadYield(t)
  \/ \E t \in Threads, n \in StartSleepArgs : TimerSleep(t, n)
  \/ \E t \in Threads : ThreadSleepUntil(t)

SpecStart == InitStart /\ [][NextStart]_vars

\* the initial thread is inside thread_start
InThreadStart ==
  \E i \in 1..Len(stack[initial_thread]) :
    \/ stack[initial_thread][i].pc \in {"ts_create", "ts_unblock", "ts_down"}
    \/ stack[initial_thread][i].obj = idle_started

\* C36 as stated: the idle thread is in the ready list in no reachable
\* state.
C36_AsClaimed == idle_thread \notin Range(ready_list)

\* C36: once thread_start has returned the idle thread is never in the
\* ready list; the dispatcher hands the processor to the idle thread only
\* with the ready list empty, and always does so when the running thread
\* blocks or exits with the ready list empty.
C36_IdleOffReadyQueue ==
  /\ [](~InThreadStart => idle_thread \notin Range(ready_list))
  /\ [][~InThreadStart
        => /\ (running' = idle_thread /\ running /= idle_thread)
              => ready_list = <<>> /\ ready_list' = <<>>
           /\ (status'[running] \in {"BLOCKED", "DYING"} /\ ready_list = <<>>)
              => running' = idle_thread]_vars

\* thread_start has returned, the initial thread sleeps, and the idle
\* thread was dispatched with the ready list empty
C36_Witness ==
  /\ ~InThreadStart
  /\ Sleeping(initial_thread)
  /\ running = idle_thread
  /\ IdleThreadSet
  /\ ready_list = <<>>


\* ---------------------------------------------------------------- C38
\* the place of step x in the log of the last timer interrupt, 0 if the
\* handler did not go through it
LogIndex(x) ==
  IF \E i \in 1..Len(isr_log) : isr_log[i] = x
  THEN CHOOSE i \in 1..Len(isr_log) : isr_log[i] = x
  ELSE 0

\* C38: inside one timer tick the tick count and the tick accounting come
\* first, then the scan of the sleep list, and the request for a yield
\* because the time slice is used up is made only after the scan.
C38_TickOrder ==
  isr_log /= <<>>
  => /\ LogIndex("ticks++") = 1
     /\ LogIndex("thread_tick") = 2
     /\ LogIndex("thread_tick") < LogIndex("thread_wakeup")
     /\ LogIndex("slice:intr_yield_on_return") > 0
        => LogIndex("thread_wakeup") < LogIndex("slice:intr_yield_on_return")


\* ---------------------------------------------------------------- C39
\* thread_unblock (t) runs in this step: t leaves Blocked for the ready list
Unblocked(t) == status[t] = "BLOCKED" /\ enq_stamp'[t] /= enq_stamp[t]

\* t has a higher priority than the running thread
Outranks(t) == priority[t] > priority[running]

\* the running thread goes through thread_yield and gives way
RunningYields ==
  /\ status'[running] = "READY"
  /\ Occurrences(ready_list', running) = 1
  /\ running' /= running
  /\ thread_ticks' = 0
  /\ DispatchedBest

\* the running thread goes on, not having been near the ready list
RunningStays ==
  /\ running' = running
  /\ status'[running] = "RUNNING"
  /\ enq_stamp'[running] = enq_stamp[running]

\* t is Ready in the ready list, or already dispatched from it
MadeReady(t) ==
  \/ t = running' /\ status'[t] = "RUNNING"
  \/ status'[t] = "READY" /\ Occurrences(ready_list', t) = 1

\* the handler of this tick asked for a yield on behalf of a woken thread
FlagSetByUnblock ==
  \E i \in 1..Len(isr_log') : isr_log'[i] = "unblock:intr_yield_on_return"

\* what thread_unblock does in a step, from thread context and from the
\* timer interrupt; with idleExempt the idle thread is never made to yield
UnblockLaw(idleExempt) ==
  LET must(t) == Outranks(t) /\ (idleExempt => ~IsIdleThread(running))
      woken == {w \in Range(sleep_list) : w \notin Range(sleep_list')}
  IN /\ ~TickStep
        => \A t \in Threads :
             Unblocked(t)
             => /\ MadeReady(t)
                /\ IF must(t) THEN RunningYields
                   ELSE RunningStays /\ thread_ticks' = thread_ticks
     /\ TickStep
        => /\ \A w \in woken : Unblocked(w) /\ MadeReady(w)
           /\ \A u \in Range(sleep_list') : wakeup_tick[u] > ticks'
           /\ IF \E w \in woken : must(w)
              THEN FlagSetByUnblock /\ RunningYields
              ELSE /\ ~FlagSetByUnblock
                   /\ ~SliceExpired(thread_ticks + 1)
                      => RunningStays /\ thread_ticks' = thread_ticks + 1

\* C39 as stated: the running thread is made to yield whenever the thread
\* unblocked has a higher priority, whichever thread is running.
C39_AsClaimed == [][UnblockLaw(FALSE)]_vars

\* C39: thread_unblock (t) takes t from Blocked to Ready in the ready list.
\* If the running thread is not the idle thread and t has a strictly higher
\* priority, the running thread yields: at once through thread_yield in
\* thread context; in the timer interrupt by the flag of
\* intr_yield_on_return, the dispatch coming after the whole scan of the
\* sleep list. Otherwise there is no yield and no flag.
C39_UnblockPreemption == [][UnblockLaw(TRUE)]_vars

\* the timer interrupt found the idle thread running and woke a thread of
\* higher priority: the thread is in the ready list and the idle thread
\* still runs, on its way to thread_block
C39_Witness ==
  /\ running = idle_thread
  /\ IsIdleThread(idle_thread)
  /\ Top(idle_thread).pc = "idle_loop"
  /\ isr_log = <<"ticks++", "thread_tick", "thread_wakeup">>
  /\ ready_list /= <<>>
  /\ priority[Head(ready_list)] > priority[idle_thread]
  /\ wakeup_tick[Head(ready_list)] = ticks

\* the functions the claim lists that the test calls directly; timer_sleep
\* is the caller of timer_ticks and of thread_sleep_until
ScopedCalls == {"thread_yield", "thread_set_priority", "thread_set_nice",
                "sema_down", "sema_try_down", "sema_up", "timer_sleep"}

\* the step is the cond_wait whose sema_init initialises semaphore s
SemaInitStep(s) ==
  /\ ops' = ops + 1
  /\ last_call'.f = "cond_wait"
  /\ \E t \in DOMAIN WaiterSema : last_call'.t = t /\ s = WaiterSema[t]

\* the step changes the ready queue, the sleep list, the value or the
\* waiters of a semaphore, or the status of a thread; with initExempt, the
\* writes of sema_init and of init_thread to an object that no other
\* thread can reach yet are left out
Mutates(initExempt) ==
  \/ ready_list' /= ready_list
  \/ sleep_list' /= sleep_list
  \/ \E s \in Semas : /\ (value'[s] /= value[s] \/ waiters'[s] /= waiters[s])
                       /\ ~(initExempt /\ SemaInitStep(s))
  \/ \E t \in Threads : /\ status'[t] /= status[t]
                         /\ ~(initExempt /\ status[t] = "NONE")

\* what a step mutates, it writes with interrupts masked
MaskedLaw(initExempt) ==
  tracing /\ Mutates(initExempt) => write_level' = "INTR_OFF"

\* a call of a listed function that returns at once leaves the interrupt
\* level and the saved levels as they were at the call
ReturnsAtOnceLaw ==
  /\ ops' = ops + 1
  /\ last_call'.f \in ScopedCalls
  /\ running' = running
  /\ stack'[running][Len(stack'[running])].pc = "user"
  => intr_level' = intr_level /\ old_level' = old_level

\* the running thread: the flag is clear exactly inside a section with
\* interrupts disabled, and the levels saved are those of the scopes open at
\* its pc, entered at the level of the caller
RunningLevels ==
  ~panicked /\ Len(stack[running]) > 0
  => /\ (intr_level = "INTR_OFF") = (Top(running).pc \in IntrOffPcs)
     /\ old_level[running] = [i \in 1..OpenScopes(Top(running).pc) |-> "INTR_ON"]

\* a thread that is switched out: the outermost level it saved, which is the
\* one in force when its call returns, is the level at the call; the scopes
\* inside were entered with interrupts masked
SuspendedLevels ==
  \A t \in Threads :
    t /= running /\ old_level[t] /= <<>>
    => /\ status[t] \in {"READY", "BLOCKED"}
       /\ old_level[t][1] = "INTR_ON"
       /\ \A i \in 2..Len(old_level[t]) : old_level[t][i] = "INTR_OFF"

\* C40, as claimed: every mutation of the ready queue, the sleep list, a
\* semaphore's value or waiters, or a thread's status is made with interrupts
\* masked, the writes of init_thread and sema_init included
C40_AsClaimed == [][MaskedLaw(FALSE)]_vars

\* C40: every mutation of the ready queue, the sleep list, a semaphore's
\* value or waiters, or a thread's status is made with interrupts masked,
\* except the writes by which init_thread and sema_init initialise a thread
\* or a semaphore that is not shared yet; and each listed function returns
\* to its caller at the interrupt level of the call, at once or after the
\* caller was switched out and dispatched again: the running thread has
\* interrupts masked only inside an open scope, and a suspended thread has
\* saved the level of its call as the one to restore last.
C40_InterruptMasking ==
  /\ [](RunningLevels /\ SuspendedLevels)
  /\ [][MaskedLaw(TRUE) /\ ReturnsAtOnceLaw]_vars

\* thread_unblock, called in thread_create for a thread of higher priority,
\* has returned at the level of the call after its caller was switched out
\* inside it and, the new thread having blocked or exited with no tick in
\* between, dispatched again
C40_Witness ==
  \E t \in Threads \ {idle_thread} :
    /\ ~panicked /\ ticks = 0
    /\ running = t /\ Top(t).pc = "tc_ret"
    /\ Top(t).obj \in blocked_once
    /\ priority[Top(t).obj] > priority[t]
    /\ intr_level = "INTR_ON" /\ old_level[t] = <<>>
====
